---- MODULE Spec2Model ----
(***************************************************************************)
(* dmdevfs: the driver registry, the path synthesizer, the configuration   *)
(* walk and the directory / file operations of src/src/dmdevfs.c.          *)
(*                                                                         *)
(* A C string is a sequence of one-character strings.  NULL is the model   *)
(* value None.  Numbers are formatted digit by digit, as "%u" does.        *)
(***************************************************************************)
EXTENDS Integers, Sequences, FiniteSets, TLC

\* NULL, comparable with every string of the model and equal to none of them
None == <<"<NULL>">>

(* ----------------------------- bounds ---------------------------------- *)

\* most driver nodes one mount registers
MaxNodes == 2
\* deepest nesting of configuration directories below the top one
MaxDepth == 1
\* scaled stand-in for dmod.h's DMOD_MAX_MODULE_NAME_LENGTH (size of a name buffer)
DMOD_MAX_MODULE_NAME_LENGTH == 16

(* --------------------------- C string helpers -------------------------- *)

Min(a, b) == IF a < b THEN a ELSE b

\* first n characters of s
Take(s, n) == SubSeq(s, 1, Min(Len(s), n))

\* strcmp(a, b) == 0
StrEq(a, b) == a = b

\* one decimal digit as a character
DigitChar(d) == CASE d = 0 -> "0" [] d = 1 -> "1" [] d = 2 -> "2" [] d = 3 -> "3"
                  [] d = 4 -> "4" [] d = 5 -> "5" [] d = 6 -> "6" [] d = 7 -> "7"
                  [] d = 8 -> "8" [] d = 9 -> "9"

RECURSIVE FormatU(_)
\* "%u": the decimal digits of n, most significant first, no leading zero
FormatU(n) == IF n < 10 THEN <<DigitChar(n)>>
              ELSE FormatU(n \div 10) \o <<DigitChar(n % 10)>>

\* Dmod_SnPrintf(buf, size, ...): the formatted text cut to size - 1 characters
SnPrintf(size, text) == IF size = 0 THEN <<>> ELSE Take(text, size - 1)

\* strncpy(dst, src, size) into a zeroed buffer, read back as a string
StrNCpy(size, text) == Take(text, size)

\* strrchr(s, c): index of the last c in s, 0 when there is none
StrRChr(s, c) == IF \E i \in 1..Len(s) : s[i] = c
                 THEN CHOOSE i \in 1..Len(s) : s[i] = c /\ \A j \in (i+1)..Len(s) : s[j] # c
                 ELSE 0

(* ------------------------ program constants ---------------------------- *)

ROOT_DIRECTORY_NAME == <<"/">>
MAX_PATH_LENGTH == DMOD_MAX_MODULE_NAME_LENGTH + 20

(* ------------------------- path synthesizer ---------------------------- *)

\* a dmdrvi_dev_num_t: flags (DMDRVI_NUM_MAJOR, DMDRVI_NUM_MINOR), major, minor
DevNum(hasMajor, hasMinor, major, minor) ==
    [major_given |-> hasMajor, minor_given |-> hasMinor, major |-> major, minor |-> minor]

\* read_driver_parent_directory with the historical defect: a major number
\* alone also makes a grouping directory
read_driver_parent_directory_MajorIsDir(name, dev, buffer_size) ==
    IF dev.major_given
    THEN SnPrintf(buffer_size, name \o FormatU(dev.major) \o <<"/">>)
    ELSE IF dev.minor_given
    THEN SnPrintf(buffer_size, name \o <<"x", "/">>)
    ELSE StrNCpy(buffer_size, ROOT_DIRECTORY_NAME)

\* read_driver_parent_directory: name is Dmod_GetName(node->driver)
read_driver_parent_directory(name, dev, buffer_size) ==
    IF dev.major_given /\ dev.minor_given
    THEN SnPrintf(buffer_size, name \o FormatU(dev.major) \o <<"/">>)
    ELSE IF dev.minor_given
    THEN SnPrintf(buffer_size, name \o <<"x", "/">>)
    ELSE StrNCpy(buffer_size, ROOT_DIRECTORY_NAME)

\* read_driver_node_path: the parent directory, then the leaf written behind it
\* in what is left of the buffer.  Result: [rc, path].
read_driver_node_path(name, dev, buffer_size) ==
    LET parent == read_driver_parent_directory(name, dev, buffer_size)
        current_length == Len(parent)
        rest == buffer_size - current_length
    IN  IF current_length >= buffer_size
        THEN [rc |-> "NO_SPACE", path |-> parent]
        ELSE IF dev.minor_given
        THEN [rc |-> "OK", path |-> parent \o SnPrintf(rest, FormatU(dev.minor))]
        ELSE IF dev.major_given
        THEN [rc |-> "OK", path |-> parent \o SnPrintf(rest, name \o FormatU(dev.major))]
        ELSE [rc |-> "OK", path |-> parent \o StrNCpy(rest, name)]

(* ------------------------ driver name resolution ----------------------- *)

\* a parsed configuration document: parse_ok is dmini_parse_file's verdict,
\* driver_name the value of key driver_name in section main (None: no such key)
Doc(ok, key) == [parse_ok |-> ok, driver_name |-> key]

\* dmini_get_string(ctx, "main", "driver_name", default): the value, else the default
dmini_get_string(doc, default) ==
    IF doc.driver_name # None THEN doc.driver_name ELSE default

\* read_base_name: what follows the last '/', cut to name_size - 1 characters
read_base_name(path, name_size) ==
    LET last_slash == StrRChr(path, "/")
        name_start == SubSeq(path, last_slash + 1, Len(path))
    IN  Take(StrNCpy(name_size, name_start), name_size - 1)

\* the tail of read_driver_for_config: cut the ".ini" extension if present
cut_ini_extension(driver_name) ==
    LET ext == StrRChr(driver_name, ".")
    IN  IF ext # 0 /\ StrEq(SubSeq(driver_name, ext, Len(driver_name)), <<".", "i", "n", "i">>)
        THEN SubSeq(driver_name, 1, ext - 1)
        ELSE driver_name

\* read_driver_for_config with the inherited default looked at before the key
read_driver_for_config_DefaultFirst(config_path, doc, name_size, default_driver) ==
    IF ~doc.parse_ok THEN None
    ELSE LET name == IF default_driver # None THEN default_driver ELSE doc.driver_name
         IN  IF name # None
             THEN Take(StrNCpy(name_size, name), name_size - 1)
             ELSE cut_ini_extension(read_base_name(config_path, name_size))

\* read_driver_for_config with the file name looked at before the inherited default
read_driver_for_config_FileFirst(config_path, doc, name_size, default_driver) ==
    IF ~doc.parse_ok THEN None
    ELSE IF doc.driver_name # None
         THEN Take(StrNCpy(name_size, doc.driver_name), name_size - 1)
         ELSE cut_ini_extension(read_base_name(config_path, name_size))

\* read_driver_for_config: None when the document does not parse, else the
\* driver name written to the caller's buffer of name_size bytes
read_driver_for_config(config_path, doc, name_size, default_driver) ==
    IF ~doc.parse_ok THEN None
    ELSE LET name == dmini_get_string(doc, default_driver)
         IN  IF name # None
             THEN Take(StrNCpy(name_size, name), name_size - 1)
             ELSE cut_ini_extension(read_base_name(config_path, name_size))

(* --------------------------- the environment --------------------------- *)

dmclk == <<"d", "m", "c", "l", "k">>
dmspi == <<"d", "m", "s", "p", "i">>
dmraw == <<"d", "m", "r", "a", "w">>
dmled == <<"d", "m", "l", "e", "d">>
mydrv == <<"m", "y", "d", "r", "v">>
misc  == <<"m", "i", "s", "c">>
longname == <<"d", "m", "c", "l", "k", "l", "o", "n", "g", "n", "a", "m", "e", "0", "1", "2", "3", "4", "5">>
DotIni == <<".", "i", "n", "i">>

\* the driver modules the module system can find (Dmod_FindMatch, Dmod_LoadModuleByName)
Modules == {dmclk, dmspi, dmraw, dmled}

AllCaps == {"create", "free", "open", "close", "read", "write", "flush", "stat"}

\* Dmod_GetDifFunction(module, sig) # NULL: dmclk implements everything, dmspi
\* no dmdrvi_stat, dmdrvi_read, dmdrvi_write, dmdrvi_flush, dmraw no
\* dmdrvi_create, dmled nothing to free, to open or to transfer with
HasCap(m, cap) == CASE m = dmclk -> cap \in AllCaps
                    [] m = dmspi -> cap \in AllCaps \ {"stat", "read", "write", "flush"}
                    [] m = dmraw -> cap \in AllCaps \ {"create"}
                    [] m = dmled -> cap \in {"create", "stat"}
                    [] OTHER -> FALSE

DMFSI_ATTR_DIRECTORY == "DIRECTORY"

\* what the driver's dmdrvi_stat reports: [rc, size, mode]
dmdrvi_stat(m, path) == [rc |-> 0, size |-> Len(path), mode |-> "DEVICE"]

Majors == {12}
Minors == {0, 7}
\* the device numbers a driver's dmdrvi_create may hand back
DevNums == {DevNum(FALSE, FALSE, 0, 0)}
           \cup {DevNum(TRUE, FALSE, ma, 0) : ma \in Majors}
           \cup {DevNum(FALSE, TRUE, 0, mi) : mi \in Minors}
           \cup {DevNum(TRUE, TRUE, ma, mi) : ma \in Majors, mi \in Minors}

(* ------------------------------- state --------------------------------- *)

VARIABLES
    phase,       \* "none": no context; "walking": inside dmfsi_init; "mounted"; "dead";
                 \* "trapped": a read or write through NULL ended the program
    walk,        \* the active configure_drivers calls, outermost first
    drivers,     \* ctx->drivers: the registry, in insertion order
    modLoaded,   \* module system: Dmod_IsModuleLoaded per module
    modEnabled,  \* module system: Dmod_IsModuleEnabled per module
    dirs,        \* the caller's directory iterators (directory_node_t), None when not open
    files,       \* the caller's file handles (file_handle_t), None when not open
    last,        \* the outcome of the latest operation that returns one
    rin,         \* the arguments of a read_driver_for_config call
    rout,        \* its result
    pre,         \* history: what the module system held when dmfsi_init was entered
    skippedAt    \* history: the registry length when the walk last skipped an entry, -1: never

vars == <<phase, walk, drivers, modLoaded, modEnabled, dirs, files, last, rin, rout, pre,
         skippedAt>>

\* a registered driver_node_t
Node(m, dev, wl, we, path) ==
    [driver |-> m, dev_num |-> dev, was_loaded |-> wl, was_enabled |-> we, path |-> path]

\* configure_driver's NULL
NoNode == Node(None, DevNum(FALSE, FALSE, 0, 0), FALSE, FALSE, None)

(* ------------------------- registry predicates ------------------------- *)

RECURSIVE StrCmp(_, _)
\* strcmp(a, b): 0 when the strings are equal, 1 (non-zero) at the first difference
StrCmp(a, b) ==
    IF a = <<>> /\ b = <<>> THEN 0
    ELSE IF a = <<>> \/ b = <<>> THEN 1
    ELSE IF Head(a) # Head(b) THEN 1
    ELSE StrCmp(Tail(a), Tail(b))

\* the parent directory of a registered node, in a path_t buffer
ParentOf(node) == read_driver_parent_directory(node.driver, node.dev_num, MAX_PATH_LENGTH)

RECURSIVE ComparePrefix(_, _)
\* the while loop of compare_driver_directory: walks path, 1 at the first
\* character that differs from driver_path (whose buffer is zero filled)
ComparePrefix(path, driver_path) ==
    IF path = <<>> THEN 0
    ELSE IF driver_path = <<>> \/ Head(path) # Head(driver_path) THEN 1
    ELSE ComparePrefix(Tail(path), Tail(driver_path))

\* compare_driver_directory(node, path)
compare_driver_directory(node, path) ==
    IF path = None THEN 0 ELSE ComparePrefix(path, ParentOf(node))

\* compare_driver_node_path with a prefix walk in place of strcmp
compare_driver_node_path_Prefix(node, path) ==
    IF path = None THEN 0 ELSE ComparePrefix(path, node.path)

\* compare_driver_node_path(node, path)
compare_driver_node_path(node, path) ==
    IF path = None THEN 0 ELSE StrCmp(node.path, path)

\* dmlist_find_next(list, current, path, compare_driver_directory): the first
\* node after position current (0: from the start) that compares 0; 0 is NULL
get_next_driver_node(list, current, path) ==
    LET hits == {i \in (current + 1)..Len(list) : compare_driver_directory(list[i], path) = 0}
    IN  IF hits = {} THEN 0 ELSE CHOOSE i \in hits : \A j \in hits : i <= j

\* dmlist_find(list, path, compare_driver_node_path): first node that compares 0
find_driver_node(list, path) ==
    LET hits == {i \in 1..Len(list) : compare_driver_node_path(list[i], path) = 0}
    IN  IF hits = {} THEN 0 ELSE CHOOSE i \in hits : \A j \in hits : i <= j

\* is_directory that knows the root only by the nodes in it
is_directory_OnlyNodes(list, path) ==
    \E i \in 1..Len(list) : compare_driver_directory(list[i], path) = 0

\* is_directory(ctx, path)
is_directory(list, path) ==
    \/ StrCmp(path, ROOT_DIRECTORY_NAME) = 0
    \/ \E i \in 1..Len(list) : compare_driver_directory(list[i], path) = 0

\* driver_stat(node, path): ok is "returned 0"; size and mode are what the
\* driver wrote to the dmdrvi_stat_t
driver_stat(node, path) ==
    IF ~HasCap(node.driver, "stat")
    THEN [ok |-> FALSE, size |-> 0, mode |-> "unset"]
    ELSE LET st == dmdrvi_stat(node.driver, path)
         IN  [ok |-> st.rc = 0, size |-> st.size, mode |-> st.mode]

\* the file handles a caller holds at a time
FileIds == {1}

\* open: *fp was written; allocated: a file_handle_t is held; opened: what
\* dmdrvi_open gave ("none": not called, "NULL", "handle")
NoFile == [open |-> FALSE, rc |-> "none", driver |-> 0, path |-> None,
           mode |-> "unset", attr |-> 0, allocated |-> FALSE, opened |-> "none"]

\* no operation has reported anything yet; check: the argument check that ended
\* the call ("context", "argument"), teardown: what unconfigure_drivers did to
\* each node
NoLast == [op |-> "none", path |-> None, rc |-> "none", node |-> 0,
           size |-> 0, attr |-> "unset", value |-> 0, freed |-> <<>>, entries |-> <<>>,
           calls |-> 0, given |-> 0, check |-> "none", teardown |-> <<>>]

(* ------------------------ a mounted file system ------------------------ *)

\* the node configure_driver builds for module m when its create hands back dev
MakeNode(m, dev) ==
    Node(m, dev, FALSE, FALSE, read_driver_node_path(m, dev, MAX_PATH_LENGTH).path)

\* the modules that implement dmdrvi_create, the only ones that get registered
DriverModules == {m \in Modules : HasCap(m, "create")}

NodeKinds == {MakeNode(m, dev) : m \in DriverModules \ {dmled}, dev \in DevNums}
             \cup {MakeNode(dmled, DevNum(FALSE, FALSE, 0, 0))}

\* the registries a mount can leave behind, up to MaxNodes nodes
Registries == UNION {[1..n -> NodeKinds] : n \in 0..MaxNodes}

InitMounted ==
    /\ phase = "mounted" /\ walk = <<>>
    /\ drivers \in Registries
    /\ modLoaded = [m \in Modules |-> TRUE]
    /\ modEnabled = [m \in Modules |-> TRUE]
    /\ rin = None /\ rout = None
    /\ pre = [loaded |-> modLoaded, enabled |-> modEnabled]
    /\ skippedAt = -1

(* -------------------------- directory iterator ------------------------- *)

DirIds == {1}

\* paths callers open as directories
DirPaths == { ROOT_DIRECTORY_NAME,
              <<>>,
              dmclk \o <<"1", "2", "/">>,
              dmclk \o <<"x", "/">>,
              dmspi \o <<"1", "2", "/">>,
              dmspi \o <<"x", "/">>,
              dmclk \o <<"1">>,
              dmraw \o <<"x", "/">> }

\* the caller's dmfsi_dir_entry_t before anything was written to it
NoEntry == [name |-> None, size |-> 0, attr |-> "unset"]

\* an iterator slot the caller holds nothing in
NoDir == [open |-> FALSE, rc |-> "none", directory_path |-> None, driver |-> 0,
          entry |-> NoEntry, last |-> "none", out |-> <<>>]

\* dmfsi_opendir that takes up the cursor the iterator closed last had left
Opendir_Resume(d, path, allocOk) ==
    /\ phase = "mounted"
    /\ dirs[d] = NoDir
    /\ dirs' = [dirs EXCEPT ![d] =
          IF ~is_directory(drivers, path)
          THEN [NoDir EXCEPT !.rc = "NOT_FOUND", !.directory_path = path]
          ELSE IF ~allocOk
          THEN [NoDir EXCEPT !.rc = "GENERAL", !.directory_path = path]
          ELSE [NoDir EXCEPT !.open = TRUE, !.rc = "OK", !.directory_path = path,
                             !.driver = get_next_driver_node(drivers, last.node, path)]]
    /\ UNCHANGED <<phase, walk, drivers, modLoaded, modEnabled, files, last, rin, rout, pre, skippedAt>>

\* dmfsi_opendir(ctx, &dp, path); allocOk: Dmod_Malloc gave memory.
\* dirs[d] keeps the return code and, on OK, the directory_node_t behind *dp.
Opendir(d, path, allocOk) ==
    /\ phase = "mounted"
    /\ dirs[d] = NoDir
    /\ dirs' = [dirs EXCEPT ![d] =
          IF ~is_directory(drivers, path)
          THEN [open |-> FALSE, rc |-> "NOT_FOUND", directory_path |-> path, driver |-> 0,
                entry |-> NoEntry, last |-> "none", out |-> <<>>]
          ELSE IF ~allocOk
          THEN [open |-> FALSE, rc |-> "GENERAL", directory_path |-> path, driver |-> 0,
                entry |-> NoEntry, last |-> "none", out |-> <<>>]
          ELSE [open |-> TRUE, rc |-> "OK", directory_path |-> path,
                driver |-> get_next_driver_node(drivers, 0, path),
                entry |-> NoEntry, last |-> "none", out |-> <<>>]]
    /\ UNCHANGED <<phase, walk, drivers, modLoaded, modEnabled, files, last, rin, rout, pre, skippedAt>>

\* dmfsi_readdir that starts over once the cursor is absent
readdir_step_Rewind(list, dn) ==
    IF dn.driver = 0
    THEN [dn EXCEPT !.last = "NOT_FOUND",
                    !.driver = get_next_driver_node(list, 0, dn.directory_path)]
    ELSE LET driver == list[dn.driver]
             parent_dir == ParentOf(driver)
             next == get_next_driver_node(list, dn.driver, dn.directory_path)
         IN  [dn EXCEPT !.last = "OK",
                        !.entry = [name |-> parent_dir, size |-> 0,
                                   attr |-> DMFSI_ATTR_DIRECTORY],
                        !.out = Append(@, [name |-> parent_dir, size |-> 0,
                                           attr |-> DMFSI_ATTR_DIRECTORY,
                                           branch |-> "directory", node |-> dn.driver]),
                        !.driver = next]

\* the effect of one dmfsi_readdir on a directory_node_t dn: the new iterator
readdir_step(list, dn) ==
    IF dn.driver = 0
    THEN [dn EXCEPT !.last = "NOT_FOUND"]
    ELSE LET driver == list[dn.driver]
             parent_dir == ParentOf(driver)
             file_should_be_listed == StrCmp(dn.directory_path, parent_dir) = 0
             st == driver_stat(driver, driver.path)
             next == get_next_driver_node(list, dn.driver, dn.directory_path)
         IN  IF file_should_be_listed
             THEN IF ~st.ok
                  THEN [dn EXCEPT !.last = "GENERAL", !.entry.name = driver.path]
                  ELSE [dn EXCEPT !.last = "OK",
                                  !.entry = [name |-> driver.path, size |-> st.size,
                                             attr |-> st.mode],
                                  !.out = Append(@, [name |-> driver.path, size |-> st.size,
                                                     attr |-> st.mode, branch |-> "file",
                                                     node |-> dn.driver]),
                                  !.driver = next]
             ELSE [dn EXCEPT !.last = "OK",
                             !.entry = [name |-> parent_dir, size |-> 0,
                                        attr |-> DMFSI_ATTR_DIRECTORY],
                             !.out = Append(@, [name |-> parent_dir, size |-> 0,
                                                attr |-> DMFSI_ATTR_DIRECTORY,
                                                branch |-> "directory", node |-> dn.driver]),
                             !.driver = next]

\* dmfsi_readdir(ctx, dp, &entry) on an open iterator
Readdir(d) ==
    /\ phase = "mounted"
    /\ dirs[d].open
    /\ dirs' = [dirs EXCEPT ![d] = readdir_step(drivers, dirs[d])]
    /\ UNCHANGED <<phase, walk, drivers, modLoaded, modEnabled, files, last, rin, rout, pre, skippedAt>>

\* dmfsi_closedir that ends every iterator of the context
Closedir_ClosesAll(d) ==
    /\ phase = "mounted"
    /\ dirs[d] # NoDir
    /\ dirs' = [e \in DOMAIN dirs |-> NoDir]
    /\ last' = IF dirs[d].open /\ dirs[d].last \notin {"none", "OK"}
               THEN [NoLast EXCEPT !.op = "closedir", !.rc = "OK",
                                   !.path = dirs[d].directory_path,
                                   !.node = dirs[d].driver,
                                   !.entries = dirs[d].out]
               ELSE NoLast
    /\ UNCHANGED <<phase, walk, drivers, modLoaded, modEnabled, files, rin, rout, pre, skippedAt>>

\* dmfsi_closedir(ctx, dp); a failed opendir leaves nothing to close, the
\* caller just forgets its result.  last keeps what the caller saw of an
\* iterator it closed after readdir had stopped returning OK: the path, the
\* entries yielded and where the cursor stood.
Closedir(d) ==
    /\ phase = "mounted"
    /\ dirs[d] # NoDir
    /\ dirs' = [dirs EXCEPT ![d] = NoDir]
    /\ last' = IF dirs[d].open /\ dirs[d].last \notin {"none", "OK"}
               THEN [NoLast EXCEPT !.op = "closedir", !.rc = "OK",
                                   !.path = dirs[d].directory_path,
                                   !.node = dirs[d].driver,
                                   !.entries = dirs[d].out]
               ELSE NoLast
    /\ UNCHANGED <<phase, walk, drivers, modLoaded, modEnabled, files, rin, rout, pre, skippedAt>>

InitDir ==
    /\ InitMounted
    /\ dirs = [d \in DirIds |-> NoDir]
    /\ files = [h \in FileIds |-> NoFile]
    /\ last = NoLast

NextDir ==
    \/ \E d \in DirIds, path \in DirPaths, allocOk \in BOOLEAN : Opendir(d, path, allocOk)
    \/ \E d \in DirIds : Readdir(d)
    \/ \E d \in DirIds : Closedir(d)

SpecDir == InitDir /\ [][NextDir]_vars

\* a caller that drains its iterator: as long as another readdir would change
\* anything it is called again, as in the listing loop of the tests
SpecDrain == InitDir /\ [][NextDir]_vars /\ WF_vars(\E d \in DirIds : Readdir(d))

(* ------------------------- several iterators --------------------------- *)

\* the iterators a caller may hold at the same time
IterIds == {1, 2}

\* the directories they are opened on
IterPaths == {ROOT_DIRECTORY_NAME, dmclk \o <<"1", "2", "/">>}

\* a mounted file system of dmclk devices, with or without the dmspi node of
\* the root, which has no dmdrvi_stat
InitIter ==
    /\ InitMounted
    /\ \A i \in 1..Len(drivers) :
          drivers[i].driver = dmclk \/ drivers[i].path = <<"/">> \o dmspi
    /\ dirs = [d \in IterIds |-> NoDir]
    /\ files = [h \in FileIds |-> NoFile]
    /\ last = NoLast

NextIter ==
    \/ \E d \in IterIds, path \in IterPaths, allocOk \in BOOLEAN :
          Opendir(d, path, allocOk)
    \/ \E d \in IterIds : Readdir(d)
    \/ \E d \in IterIds : Closedir(d)

\* two directory iterators on one mounted file system
SpecIter == InitIter /\ [][NextIter]_vars

(* ------------------------- files and lookups --------------------------- *)

\* paths callers hand to stat, fopen and direxists
FilePaths == { ROOT_DIRECTORY_NAME,
               <<>>,
               dmclk,
               <<"/">> \o dmclk,
               <<"/">> \o dmclk \o <<"1">>,
               <<"/">> \o dmclk \o <<"1", "2">>,
               dmclk \o <<"1", "2", "/">>,
               dmclk \o <<"1", "2", "/", "7">>,
               <<"/">> \o dmclk \o <<"1", "2", "/", "7">>,
               dmspi \o <<"x", "/", "0">>,
               <<"/">> \o dmled,
               <<"/">> \o dmspi }

Modes == {"RDONLY"}
Attrs == {0}

\* dmfsi_fopen that keeps the file_handle_t when dmdrvi_open gives no handle
Fopen_KeepOnOpenFailure(h, path, mode, attr, allocOk, openOk, dupOk) ==
    /\ phase = "mounted"
    /\ files[h] = NoFile
    /\ LET driver_node == find_driver_node(drivers, path)
           failed(rc) == [NoFile EXCEPT !.rc = rc, !.path = path, !.driver = driver_node]
       IN  files' = [files EXCEPT ![h] =
              IF driver_node = 0 THEN failed("NOT_FOUND")
              ELSE IF ~HasCap(drivers[driver_node].driver, "open") THEN failed("NOT_FOUND")
              ELSE IF ~allocOk THEN failed("GENERAL")
              ELSE IF ~openOk THEN [failed("GENERAL") EXCEPT !.opened = "NULL",
                                                             !.allocated = TRUE]
              ELSE [open |-> TRUE, rc |-> "OK", driver |-> driver_node,
                    path |-> IF dupOk THEN path ELSE None,
                    mode |-> mode, attr |-> attr, allocated |-> TRUE, opened |-> "handle"]]
    /\ UNCHANGED <<phase, walk, drivers, modLoaded, modEnabled, dirs, last, rin, rout, pre, skippedAt>>

\* dmfsi_fopen(ctx, &fp, path, mode, attr); allocOk: Dmod_Malloc gave memory,
\* openOk: the driver's dmdrvi_open gave a device handle, dupOk: Dmod_StrDup
\* gave a copy of the path.
\* files[h] keeps the return code and, on OK, the file_handle_t behind *fp;
\* after a failure path and driver keep the argument and the node found.
Fopen(h, path, mode, attr, allocOk, openOk, dupOk) ==
    /\ phase = "mounted"
    /\ files[h] = NoFile
    /\ LET driver_node == find_driver_node(drivers, path)
           failed(rc) == [NoFile EXCEPT !.rc = rc, !.path = path, !.driver = driver_node]
       IN  files' = [files EXCEPT ![h] =
              IF driver_node = 0 THEN failed("NOT_FOUND")
              ELSE IF ~HasCap(drivers[driver_node].driver, "open") THEN failed("NOT_FOUND")
              ELSE IF ~allocOk THEN failed("GENERAL")
              ELSE IF ~openOk THEN [failed("GENERAL") EXCEPT !.opened = "NULL"]
              ELSE [open |-> TRUE, rc |-> "OK", driver |-> driver_node,
                    path |-> IF dupOk THEN path ELSE None,
                    mode |-> mode, attr |-> attr, allocated |-> TRUE, opened |-> "handle"]]
    /\ UNCHANGED <<phase, walk, drivers, modLoaded, modEnabled, dirs, last, rin, rout, pre, skippedAt>>

\* dmfsi_fclose that takes the node of the handle out of the registry
Fclose_DropsNode(h) ==
    /\ phase = "mounted"
    /\ files[h] # NoFile
    /\ files' = [files EXCEPT ![h] = NoFile]
    /\ drivers' = IF files[h].open
                  THEN SubSeq(drivers, 1, files[h].driver - 1)
                          \o SubSeq(drivers, files[h].driver + 1, Len(drivers))
                  ELSE drivers
    /\ UNCHANGED <<phase, walk, modLoaded, modEnabled, dirs, last, rin, rout, pre, skippedAt>>

\* dmfsi_fclose(ctx, fp); after a failed fopen the caller just forgets the result
Fclose(h) ==
    /\ phase = "mounted"
    /\ files[h] # NoFile
    /\ files' = [files EXCEPT ![h] = NoFile]
    /\ UNCHANGED <<phase, walk, drivers, modLoaded, modEnabled, dirs, last, rin, rout, pre, skippedAt>>

\* dmfsi_stat(ctx, path, &stat)
Stat(path) ==
    /\ phase = "mounted"
    /\ LET driver_node == find_driver_node(drivers, path)
           res == [NoLast EXCEPT !.op = "stat", !.path = path, !.node = driver_node]
       IN  last' =
              IF driver_node = 0 THEN [res EXCEPT !.rc = "NOT_FOUND"]
              ELSE LET st == driver_stat(drivers[driver_node], path)
                   IN  IF ~st.ok THEN [res EXCEPT !.rc = "GENERAL"]
                       ELSE [res EXCEPT !.rc = "OK", !.size = st.size, !.attr = st.mode]
    /\ UNCHANGED <<phase, walk, drivers, modLoaded, modEnabled, dirs, files, rin, rout, pre, skippedAt>>

\* dmfsi_direxists(ctx, path)
Direxists(path) ==
    /\ phase = "mounted"
    /\ last' = [NoLast EXCEPT !.op = "direxists", !.path = path,
                              !.value = IF is_directory(drivers, path) THEN 1 ELSE 0]
    /\ UNCHANGED <<phase, walk, drivers, modLoaded, modEnabled, dirs, files, rin, rout, pre, skippedAt>>

InitFile ==
    /\ InitMounted
    /\ dirs = [d \in DirIds |-> NoDir]
    /\ files = [h \in FileIds |-> NoFile]
    /\ last = NoLast

NextFile ==
    \/ \E h \in FileIds, path \in FilePaths, mode \in Modes, attr \in Attrs,
          allocOk \in BOOLEAN, openOk \in BOOLEAN, dupOk \in BOOLEAN :
              Fopen(h, path, mode, attr, allocOk, openOk, dupOk)
    \/ \E h \in FileIds : Fclose(h)

NextPath ==
    \/ \E path \in FilePaths : Stat(path)
    \/ \E path \in FilePaths : Direxists(path)

\* the paths a caller of the directory operations asks direxists about
ProbePaths == {ROOT_DIRECTORY_NAME, dmclk \o <<"1">>}

NextRoot ==
    \/ \E d \in DirIds, path \in DirPaths, allocOk \in BOOLEAN : Opendir(d, path, allocOk)
    \/ \E d \in DirIds : Readdir(d)
    \/ \E d \in DirIds : Closedir(d)
    \/ \E path \in ProbePaths : Direxists(path)

\* directory listings next to direxists
SpecRoot == InitDir /\ [][NextRoot]_vars

\* path queries on a mounted file system
SpecPath == InitFile /\ [][NextPath]_vars

\* file handles on a mounted file system
SpecFile == InitFile /\ [][NextFile]_vars

(* ------------------- transfers and unsupported calls ------------------- *)

\* size arguments of fread and fwrite, and the byte counts a driver reports
Counts == {0, 3}

\* what a driver's dmdrvi_flush returns
FlushResults == {0, -1}

\* the node behind an open file handle
DriverOf(h) == drivers[files[h].driver].driver

\* what a transfer leaves in last: the return code, the count written to
\* *read or *written (value), how often the driver was called, and the count
\* the driver reported (given)
Transfer(op, h, size, rc, value, calls, given) ==
    [NoLast EXCEPT !.op = op, !.node = files[h].driver, !.size = size, !.rc = rc,
                   !.value = value, !.calls = calls, !.given = given]

\* dmfsi_fread that takes a transfer of zero bytes for a failure
Fread_ZeroIsError(h, size, n) ==
    /\ phase = "mounted"
    /\ files[h].open
    /\ n <= size
    /\ last' = IF ~HasCap(DriverOf(h), "read")
               THEN Transfer("fread", h, size, "NOT_FOUND", 0, 0, 0)
               ELSE IF n = 0
               THEN Transfer("fread", h, size, "GENERAL", 0, 1, n)
               ELSE Transfer("fread", h, size, "OK", n, 1, n)
    /\ UNCHANGED <<phase, walk, drivers, modLoaded, modEnabled, dirs, files, rin, rout, pre, skippedAt>>

\* dmfsi_fread(ctx, fp, buffer, size, &read) on an open handle with a buffer;
\* n: the bytes the driver's dmdrvi_read reports
Fread(h, size, n) ==
    /\ phase = "mounted"
    /\ files[h].open
    /\ n <= size
    /\ last' = IF ~HasCap(DriverOf(h), "read")
               THEN Transfer("fread", h, size, "NOT_FOUND", 0, 0, 0)
               ELSE Transfer("fread", h, size, "OK", n, 1, n)
    /\ UNCHANGED <<phase, walk, drivers, modLoaded, modEnabled, dirs, files, rin, rout, pre, skippedAt>>

\* dmfsi_fwrite(ctx, fp, buffer, size, &written); n: what dmdrvi_write reports
Fwrite(h, size, n) ==
    /\ phase = "mounted"
    /\ files[h].open
    /\ n <= size
    /\ last' = IF ~HasCap(DriverOf(h), "write")
               THEN Transfer("fwrite", h, size, "NOT_FOUND", 0, 0, 0)
               ELSE Transfer("fwrite", h, size, "OK", n, 1, n)
    /\ UNCHANGED <<phase, walk, drivers, modLoaded, modEnabled, dirs, files, rin, rout, pre, skippedAt>>

\* what dmfsi_fflush and dmfsi_sync do alike; result: what dmdrvi_flush returns
flush_driver(op, h, result) ==
    IF ~HasCap(DriverOf(h), "flush")
    THEN Transfer(op, h, 0, "OK", 0, 0, 0)
    ELSE IF result # 0
    THEN Transfer(op, h, 0, "GENERAL", 0, 1, result)
    ELSE Transfer(op, h, 0, "OK", 0, 1, result)

\* dmfsi_fflush for which a driver without dmdrvi_flush is an error
Fflush_MissingIsError(h, result) ==
    /\ phase = "mounted"
    /\ files[h].open
    /\ last' = IF ~HasCap(DriverOf(h), "flush")
               THEN Transfer("fflush", h, 0, "NOT_FOUND", 0, 0, 0)
               ELSE flush_driver("fflush", h, result)
    /\ UNCHANGED <<phase, walk, drivers, modLoaded, modEnabled, dirs, files, rin, rout, pre, skippedAt>>

\* dmfsi_fflush(ctx, fp) on an open handle
Fflush(h, result) ==
    /\ phase = "mounted"
    /\ files[h].open
    /\ last' = flush_driver("fflush", h, result)
    /\ UNCHANGED <<phase, walk, drivers, modLoaded, modEnabled, dirs, files, rin, rout, pre, skippedAt>>

\* dmfsi_sync(ctx, fp) on an open handle
Sync(h, result) ==
    /\ phase = "mounted"
    /\ files[h].open
    /\ last' = flush_driver("sync", h, result)
    /\ UNCHANGED <<phase, walk, drivers, modLoaded, modEnabled, dirs, files, rin, rout, pre, skippedAt>>

\* path arguments of unlink, rename and mkdir; None is NULL
IoPaths == {None, <<"/">> \o dmclk, <<"n", "e", "w">>}

\* what a call without effect leaves in last
Refused(op, path, rc) == [NoLast EXCEPT !.op = op, !.path = path, !.rc = rc]

\* dmfsi_unlink that takes the node of the path out of the registry
Unlink_Removes(ctxOk, path) ==
    /\ phase = "mounted"
    /\ LET i == find_driver_node(drivers, path)
       IN  IF ctxOk /\ path # None /\ i # 0
           THEN /\ drivers' = SubSeq(drivers, 1, i - 1) \o SubSeq(drivers, i + 1, Len(drivers))
                /\ last' = Refused("unlink", path, "OK")
           ELSE /\ drivers' = drivers
                /\ last' = Refused("unlink", path, "INVALID")
    /\ UNCHANGED <<phase, walk, modLoaded, modEnabled, dirs, files, rin, rout, pre, skippedAt>>

\* dmfsi_unlink(ctx, path); ctxOk: the context passes dmfsi_context_is_valid
Unlink(ctxOk, path) ==
    /\ phase = "mounted"
    /\ last' = IF ~ctxOk \/ path = None
               THEN Refused("unlink", path, "INVALID")
               ELSE Refused("unlink", path, "GENERAL")
    /\ UNCHANGED <<phase, walk, drivers, modLoaded, modEnabled, dirs, files, rin, rout, pre, skippedAt>>

\* dmfsi_rename(ctx, oldpath, newpath)
Rename(ctxOk, oldpath, newpath) ==
    /\ phase = "mounted"
    /\ last' = IF ~ctxOk \/ oldpath = None \/ newpath = None
               THEN Refused("rename", oldpath, "INVALID")
               ELSE Refused("rename", oldpath, "GENERAL")
    /\ UNCHANGED <<phase, walk, drivers, modLoaded, modEnabled, dirs, files, rin, rout, pre, skippedAt>>

\* dmfsi_mkdir(ctx, path)
Mkdir(ctxOk, path) ==
    /\ phase = "mounted"
    /\ last' = Refused("mkdir", path, "INVALID")
    /\ UNCHANGED <<phase, walk, drivers, modLoaded, modEnabled, dirs, files, rin, rout, pre, skippedAt>>

\* a mounted file system whose nodes all sit in the root directory
InitIo ==
    /\ InitFile
    /\ \A i \in 1..Len(drivers) :
          ~drivers[i].dev_num.major_given /\ ~drivers[i].dev_num.minor_given

NextIo ==
    \/ \E h \in FileIds, path \in FilePaths, mode \in Modes, attr \in Attrs,
          allocOk \in BOOLEAN, openOk \in BOOLEAN, dupOk \in BOOLEAN :
              Fopen(h, path, mode, attr, allocOk, openOk, dupOk)
    \/ \E h \in FileIds : Fclose(h)
    \/ \E h \in FileIds, size \in Counts, n \in Counts : Fread(h, size, n)
    \/ \E h \in FileIds, size \in Counts, n \in Counts : Fwrite(h, size, n)
    \/ \E h \in FileIds, result \in FlushResults : Fflush(h, result)
    \/ \E h \in FileIds, result \in FlushResults : Sync(h, result)
    \/ \E ctxOk \in BOOLEAN, path \in IoPaths : Unlink(ctxOk, path)
    \/ \E ctxOk \in BOOLEAN, oldpath \in IoPaths, newpath \in IoPaths :
          Rename(ctxOk, oldpath, newpath)
    \/ \E ctxOk \in BOOLEAN, path \in IoPaths : Mkdir(ctxOk, path)

\* transfers on open file handles and the calls the file system refuses
SpecIo == InitIo /\ [][NextIo]_vars

(* -------------- the entry points called with any arguments ------------- *)

\* a file pointer argument: one of the caller's handles, or 0 for NULL
FilePointers == FileIds \cup {0}

\* a directory pointer argument: one of the caller's iterators, or 0 for NULL
DirPointers == DirIds \cup {0}

\* what a read through a NULL pointer gives, by build: None when the access
\* traps, else the bytes at address 0 read as a string
NullReads == {None, <<>>, ROOT_DIRECTORY_NAME}

\* path arguments: NULL, the root, a node of the root
ApiPaths == {None, ROOT_DIRECTORY_NAME, <<"/">> \o dmclk}

\* the byte a driver hands to getc
Bytes == {0, 65}

\* the char argument of putc, as a signed char
Chars == {65, -1}

\* what a call leaves in last when one of its argument checks ends it
Stopped(op, rc, value, check) ==
    [NoLast EXCEPT !.op = op, !.rc = rc, !.value = value, !.check = check]

\* the call returns r and has touched nothing
Returns(r) ==
    /\ last' = r
    /\ UNCHANGED <<phase, walk, drivers, modLoaded, modEnabled, dirs, files, rin, rout, pre, skippedAt>>

\* the access through NULL traps: the program is gone
Trapped(op) ==
    /\ phase' = "trapped"
    /\ last' = [NoLast EXCEPT !.op = op, !.rc = "trap"]
    /\ UNCHANGED <<walk, drivers, modLoaded, modEnabled, dirs, files, rin, rout, pre, skippedAt>>

\* dmfsi_fopen(ctx, fp, path, mode, attr); ctxOk: ctx passes context_is_valid
dmfsi_dmdevfs_fopen(ctxOk, fp, path, mode, attr, allocOk, openOk, dupOk) ==
    /\ phase = "mounted"
    /\ IF ~ctxOk THEN Returns(Stopped("fopen", "INVALID", 0, "context"))
       ELSE IF fp = 0 \/ path = None
       THEN Returns(Stopped("fopen", "INVALID", 0, "argument"))
       ELSE Fopen(fp, path, mode, attr, allocOk, openOk, dupOk)

\* dmfsi_fclose that lets go of the handle before it looks at the context
dmfsi_dmdevfs_fclose_CloseFirst(ctxOk, fp) ==
    /\ phase = "mounted"
    /\ IF fp = 0 THEN Returns(Stopped("fclose", "INVALID", 0, "argument"))
       ELSE IF ~ctxOk
       THEN /\ files' = [files EXCEPT ![fp] = NoFile]
            /\ last' = Stopped("fclose", "INVALID", 0, "context")
            /\ UNCHANGED <<phase, walk, drivers, modLoaded, modEnabled, dirs, rin, rout, pre, skippedAt>>
       ELSE Fclose(fp)

\* dmfsi_fclose(ctx, fp)
dmfsi_dmdevfs_fclose(ctxOk, fp) ==
    /\ phase = "mounted"
    /\ IF ~ctxOk THEN Returns(Stopped("fclose", "INVALID", 0, "context"))
       ELSE IF fp = 0 THEN Returns(Stopped("fclose", "INVALID", 0, "argument"))
       ELSE Fclose(fp)

\* dmfsi_fread(ctx, fp, buffer, size, &read); buffer: it is not NULL
dmfsi_dmdevfs_fread(ctxOk, fp, buffer, size, n) ==
    /\ phase = "mounted"
    /\ IF ~ctxOk THEN Returns(Stopped("fread", "INVALID", 0, "context"))
       ELSE IF fp = 0 \/ ~buffer THEN Returns(Stopped("fread", "INVALID", 0, "argument"))
       ELSE Fread(fp, size, n)

\* dmfsi_fwrite(ctx, fp, buffer, size, &written)
dmfsi_dmdevfs_fwrite(ctxOk, fp, buffer, size, n) ==
    /\ phase = "mounted"
    /\ IF ~ctxOk THEN Returns(Stopped("fwrite", "INVALID", 0, "context"))
       ELSE IF fp = 0 \/ ~buffer THEN Returns(Stopped("fwrite", "INVALID", 0, "argument"))
       ELSE Fwrite(fp, size, n)

\* a file pointer that is not NULL is a handle fopen gave and fclose has not taken
Held(ctxOk, fp) == ctxOk /\ fp # 0 => files[fp].open

\* dmfsi_lseek(ctx, fp, offset, whence)
Lseek(ctxOk, fp) ==
    /\ phase = "mounted"
    /\ Held(ctxOk, fp)
    /\ Returns(IF ~ctxOk THEN Stopped("lseek", "INVALID", 0, "context")
               ELSE IF fp = 0 THEN Stopped("lseek", "INVALID", 0, "argument")
               ELSE [NoLast EXCEPT !.op = "lseek", !.node = files[fp].driver,
                                   !.rc = "GENERAL"])

\* dmfsi_tell(ctx, fp): the position is last.value
Tell(ctxOk, fp) ==
    /\ phase = "mounted"
    /\ Held(ctxOk, fp)
    /\ Returns(IF ~ctxOk THEN Stopped("tell", "none", -1, "context")
               ELSE IF fp = 0 THEN Stopped("tell", "none", -1, "argument")
               ELSE [NoLast EXCEPT !.op = "tell", !.node = files[fp].driver, !.value = -1])

\* dmfsi_eof(ctx, fp)
Eof(ctxOk, fp) ==
    /\ phase = "mounted"
    /\ Held(ctxOk, fp)
    /\ Returns(IF ~ctxOk THEN Stopped("eof", "none", 1, "context")
               ELSE IF fp = 0 THEN Stopped("eof", "none", 1, "argument")
               ELSE [NoLast EXCEPT !.op = "eof", !.node = files[fp].driver, !.value = 0])

\* dmfsi_size(ctx, fp): the size the driver's stat reports for the handle's path
Size(ctxOk, fp) ==
    /\ phase = "mounted"
    /\ Held(ctxOk, fp)
    /\ Returns(IF ~ctxOk THEN Stopped("size", "none", -1, "context")
               ELSE IF fp = 0 THEN Stopped("size", "none", -1, "argument")
               ELSE LET st == driver_stat(drivers[files[fp].driver], files[fp].path)
                    IN  [NoLast EXCEPT !.op = "size", !.node = files[fp].driver,
                                       !.calls = IF HasCap(DriverOf(fp), "stat") THEN 1 ELSE 0,
                                       !.value = IF st.ok THEN st.size ELSE -1])

\* dmfsi_getc(ctx, fp): one dmfsi_fread of a single byte; n: the count the
\* driver reports, ch: the byte it stored
Getc(ctxOk, fp, n, ch) ==
    /\ phase = "mounted"
    /\ Held(ctxOk, fp)
    /\ Returns(IF ~ctxOk THEN Stopped("getc", "none", -1, "context")
               ELSE IF fp = 0 THEN Stopped("getc", "none", -1, "argument")
               ELSE IF ~HasCap(DriverOf(fp), "read")
               THEN [NoLast EXCEPT !.op = "getc", !.node = files[fp].driver, !.value = -1]
               ELSE [NoLast EXCEPT !.op = "getc", !.node = files[fp].driver, !.size = 1,
                                   !.calls = 1, !.given = n,
                                   !.value = IF n # 1 THEN -1 ELSE ch])

\* dmfsi_putc(ctx, fp, c): one dmfsi_fwrite of (unsigned char)c
Putc(ctxOk, fp, c, n) ==
    /\ phase = "mounted"
    /\ Held(ctxOk, fp)
    /\ Returns(IF ~ctxOk THEN Stopped("putc", "none", -1, "context")
               ELSE IF fp = 0 THEN Stopped("putc", "none", -1, "argument")
               ELSE IF ~HasCap(DriverOf(fp), "write")
               THEN [NoLast EXCEPT !.op = "putc", !.node = files[fp].driver, !.value = -1]
               ELSE [NoLast EXCEPT !.op = "putc", !.node = files[fp].driver, !.size = 1,
                                   !.calls = 1, !.given = n,
                                   !.value = IF n # 1 THEN -1 ELSE c % 256])

\* dmfsi_fflush(ctx, fp)
dmfsi_dmdevfs_fflush(ctxOk, fp, result) ==
    /\ phase = "mounted"
    /\ IF ~ctxOk THEN Returns(Stopped("fflush", "INVALID", 0, "context"))
       ELSE IF fp = 0 THEN Returns(Stopped("fflush", "INVALID", 0, "argument"))
       ELSE Fflush(fp, result)

\* dmfsi_sync(ctx, fp)
dmfsi_dmdevfs_sync(ctxOk, fp, result) ==
    /\ phase = "mounted"
    /\ IF ~ctxOk THEN Returns(Stopped("sync", "INVALID", 0, "context"))
       ELSE IF fp = 0 THEN Returns(Stopped("sync", "INVALID", 0, "argument"))
       ELSE Sync(fp, result)

\* dmfsi_opendir(ctx, dp, path).  Neither path nor dp is checked: a NULL path
\* is read by strcmp and by Dmod_StrDup (atNull: what they find), while the
\* comparisons of the registry take any node for a match; a NULL dp is
\* written through once the directory_node_t is set up.
dmfsi_dmdevfs_opendir(ctxOk, dp, path, allocOk, atNull) ==
    /\ phase = "mounted"
    /\ IF ~ctxOk THEN Returns(Stopped("opendir", "INVALID", 0, "context"))
       ELSE IF path = None /\ atNull = None THEN Trapped("opendir")
       ELSE LET found == IF path = None
                         THEN \/ StrCmp(atNull, ROOT_DIRECTORY_NAME) = 0
                              \/ \E i \in 1..Len(drivers) :
                                    compare_driver_directory(drivers[i], path) = 0
                         ELSE is_directory(drivers, path)
                result(rc) == [NoLast EXCEPT !.op = "opendir", !.path = path, !.rc = rc]
            IN  IF path # None /\ dp # 0 THEN Opendir(dp, path, allocOk)
                ELSE IF ~found THEN Returns(result("NOT_FOUND"))
                ELSE IF ~allocOk THEN Returns(result("GENERAL"))
                ELSE IF dp = 0
                THEN IF atNull = None THEN Trapped("opendir") ELSE Returns(result("OK"))
                ELSE /\ dirs[dp] = NoDir
                     /\ dirs' = [dirs EXCEPT ![dp] =
                           [NoDir EXCEPT !.open = TRUE, !.rc = "OK", !.directory_path = atNull,
                                         !.driver = get_next_driver_node(drivers, 0, path)]]
                     /\ UNCHANGED <<phase, walk, drivers, modLoaded, modEnabled, files, last,
                                    rin, rout, pre, skippedAt>>

\* dmfsi_readdir(ctx, dp, entry); entry: it is not NULL.  Neither pointer is
\* checked: a NULL dp is read for its cursor (zero bytes there are a NULL
\* cursor, others a wild pointer), a NULL entry is written through when there
\* is an entry to report.
dmfsi_dmdevfs_readdir(ctxOk, dp, entry, atNull) ==
    /\ phase = "mounted"
    /\ IF ~ctxOk THEN Returns(Stopped("readdir", "INVALID", 0, "context"))
       ELSE IF dp = 0
       THEN IF atNull = <<>>
            THEN Returns([NoLast EXCEPT !.op = "readdir", !.rc = "NOT_FOUND"])
            ELSE Trapped("readdir")
       ELSE IF ~entry /\ dirs[dp].open /\ dirs[dp].driver # 0 /\ atNull = None
       THEN Trapped("readdir")
       ELSE Readdir(dp)

\* dmfsi_closedir(ctx, dp): a NULL dp is read for its directory_path, which
\* goes to Dmod_Free (zero bytes there are a NULL pointer, others a wild one)
dmfsi_dmdevfs_closedir(ctxOk, dp, atNull) ==
    /\ phase = "mounted"
    /\ IF ~ctxOk THEN Returns(Stopped("closedir", "INVALID", 0, "context"))
       ELSE IF dp = 0
       THEN IF atNull = <<>>
            THEN Returns([NoLast EXCEPT !.op = "closedir", !.rc = "OK"])
            ELSE Trapped("closedir")
       ELSE Closedir(dp)

\* dmfsi_direxists(ctx, path): a NULL path is read by strcmp
dmfsi_dmdevfs_direxists(ctxOk, path, atNull) ==
    /\ phase = "mounted"
    /\ IF ~ctxOk THEN Returns(Stopped("direxists", "none", 0, "context"))
       ELSE IF path # None THEN Direxists(path)
       ELSE IF atNull = None THEN Trapped("direxists")
       ELSE Returns([NoLast EXCEPT !.op = "direxists", !.path = path,
                       !.value = IF \/ StrCmp(atNull, ROOT_DIRECTORY_NAME) = 0
                                    \/ \E i \in 1..Len(drivers) :
                                          compare_driver_directory(drivers[i], path) = 0
                                 THEN 1 ELSE 0])

\* dmfsi_stat(ctx, path, stat); out: stat is not NULL.  A NULL path goes to
\* find_driver_node and to the driver as it is; a NULL stat is written through
\* once the driver has answered.
dmfsi_dmdevfs_stat(ctxOk, path, out, atNull) ==
    /\ phase = "mounted"
    /\ IF ~ctxOk THEN Returns(Stopped("stat", "INVALID", 0, "context"))
       ELSE LET driver_node == find_driver_node(drivers, path)
            IN  IF /\ ~out /\ atNull = None /\ driver_node # 0
                   /\ driver_stat(drivers[driver_node], path).ok
                THEN Trapped("stat")
                ELSE Stat(path)

\* a mounted file system with room left in the registry, its nodes in the root
InitApi == InitIo /\ Len(drivers) < MaxNodes

NextApi ==
    \/ \E ctxOk \in BOOLEAN, fp \in FilePointers, path \in ApiPaths, mode \in Modes,
          attr \in Attrs : dmfsi_dmdevfs_fopen(ctxOk, fp, path, mode, attr, TRUE, TRUE, TRUE)
    \/ \E ctxOk \in BOOLEAN, fp \in FilePointers : dmfsi_dmdevfs_fclose(ctxOk, fp)
    \/ \E ctxOk \in BOOLEAN, fp \in FilePointers, buffer \in BOOLEAN, n \in Counts :
          dmfsi_dmdevfs_fread(ctxOk, fp, buffer, 3, n)
    \/ \E ctxOk \in BOOLEAN, fp \in FilePointers, buffer \in BOOLEAN, n \in Counts :
          dmfsi_dmdevfs_fwrite(ctxOk, fp, buffer, 3, n)
    \/ \E ctxOk \in BOOLEAN, fp \in FilePointers : Lseek(ctxOk, fp)
    \/ \E ctxOk \in BOOLEAN, fp \in FilePointers : Tell(ctxOk, fp)
    \/ \E ctxOk \in BOOLEAN, fp \in FilePointers : Eof(ctxOk, fp)
    \/ \E ctxOk \in BOOLEAN, fp \in FilePointers : Size(ctxOk, fp)
    \/ \E ctxOk \in BOOLEAN, fp \in FilePointers, n \in 0..1, ch \in Bytes :
          Getc(ctxOk, fp, n, ch)
    \/ \E ctxOk \in BOOLEAN, fp \in FilePointers, c \in Chars, n \in 0..1 :
          Putc(ctxOk, fp, c, n)
    \/ \E ctxOk \in BOOLEAN, fp \in FilePointers, result \in FlushResults :
          dmfsi_dmdevfs_fflush(ctxOk, fp, result)
    \/ \E ctxOk \in BOOLEAN, fp \in FilePointers, result \in FlushResults :
          dmfsi_dmdevfs_sync(ctxOk, fp, result)
    \/ \E ctxOk \in BOOLEAN, dp \in DirPointers, path \in ApiPaths, atNull \in NullReads :
          dmfsi_dmdevfs_opendir(ctxOk, dp, path, TRUE, atNull)
    \/ \E ctxOk \in BOOLEAN, dp \in DirPointers, entry \in BOOLEAN, atNull \in NullReads :
          dmfsi_dmdevfs_readdir(ctxOk, dp, entry, atNull)
    \/ \E ctxOk \in BOOLEAN, dp \in DirPointers, atNull \in NullReads :
          dmfsi_dmdevfs_closedir(ctxOk, dp, atNull)
    \/ \E ctxOk \in BOOLEAN, path \in ApiPaths, atNull \in NullReads :
          dmfsi_dmdevfs_direxists(ctxOk, path, atNull)
    \/ \E ctxOk \in BOOLEAN, path \in ApiPaths, out \in BOOLEAN, atNull \in NullReads :
          dmfsi_dmdevfs_stat(ctxOk, path, out, atNull)
    \/ \E ctxOk \in BOOLEAN, path \in ApiPaths : Unlink(ctxOk, path)
    \/ \E ctxOk \in BOOLEAN, oldpath \in ApiPaths : Rename(ctxOk, oldpath, <<"/">> \o dmclk)
    \/ \E ctxOk \in BOOLEAN, path \in ApiPaths : Mkdir(ctxOk, path)

\* every entry point of a mounted file system, with arguments of every kind
SpecApi == InitApi /\ [][NextApi]_vars

(* ---------------- read_driver_for_config as a function ----------------- *)

Pending == <<"<PENDING>">>

\* the directory part of the configuration paths
CfgDir == <<"c", "/">>

\* file paths handed to read_driver_for_config
ConfigPaths == { CfgDir \o dmclk \o DotIni,
                 CfgDir \o mydrv \o DotIni,
                 CfgDir \o dmspi \o <<"/">> \o <<"d", "e", "v", "0">> \o DotIni,
                 CfgDir \o dmspi,
                 CfgDir \o <<"a", ".", "b">> \o DotIni,
                 CfgDir \o longname \o DotIni }

\* values of key driver_name (None: the key is absent)
KeyValues == {None, <<>>, dmclk, dmspi, mydrv, longname}

\* the default inherited from the enclosing directories (None: nothing inherited)
Defaults == {None, dmclk, dmspi}

IdleVars == /\ phase = "none" /\ walk = <<>> /\ drivers = <<>>
            /\ modLoaded = [m \in Modules |-> FALSE]
            /\ modEnabled = [m \in Modules |-> FALSE]
            /\ dirs = [d \in DirIds |-> NoDir]
            /\ files = [h \in FileIds |-> NoFile]
            /\ last = NoLast
            /\ pre = [loaded |-> modLoaded, enabled |-> modEnabled]
            /\ skippedAt = -1

InitResolve ==
    /\ IdleVars
    /\ rin \in [config_path : ConfigPaths, parse_ok : BOOLEAN,
                driver_name : KeyValues, default_driver : Defaults]
    /\ rout = Pending

\* one call of read_driver_for_config with a name buffer of DMOD_MAX_MODULE_NAME_LENGTH
Resolve ==
    /\ rout = Pending
    /\ rout' = read_driver_for_config(rin.config_path, Doc(rin.parse_ok, rin.driver_name),
                                      DMOD_MAX_MODULE_NAME_LENGTH, rin.default_driver)
    /\ UNCHANGED <<phase, walk, drivers, modLoaded, modEnabled, dirs, files, last, rin, pre, skippedAt>>

NextResolve == Resolve

SpecResolve == InitResolve /\ [][NextResolve]_vars

(* ---------------- read_driver_node_path as a function ------------------ *)

\* the longest name a module can have: it fills a name buffer up to its NUL
fullname == Take(longname, DMOD_MAX_MODULE_NAME_LENGTH - 1)

\* names Dmod_GetName gives for the module of a node
PathNames == {dmclk, fullname}

\* major and minor numbers a driver's dmdrvi_create reports: short ones and
\* ones of ten decimal digits, as the upper half of the 32 bit range has
PathNumbers == {7, 1000000000, 1000000001}

\* the descriptors a driver's dmdrvi_create reports
PathDevs == {DevNum(hasMajor, hasMinor, major, minor) :
                hasMajor \in BOOLEAN, hasMinor \in BOOLEAN,
                major \in PathNumbers, minor \in PathNumbers}

InitNodePath ==
    /\ IdleVars
    /\ rin \in [name : PathNames, dev : PathDevs]
    /\ rout = Pending

\* configure_driver's call of read_driver_node_path on the node's path_t
NodePath ==
    /\ rout = Pending
    /\ LET r == read_driver_node_path(rin.name, rin.dev, MAX_PATH_LENGTH)
       IN  /\ rout' = r.path
           /\ last' = [NoLast EXCEPT !.op = "read_driver_node_path", !.rc = r.rc,
                                     !.path = r.path]
    /\ UNCHANGED <<phase, walk, drivers, modLoaded, modEnabled, dirs, files, rin, pre, skippedAt>>

NextNodePath == NodePath

SpecNodePath == InitNodePath /\ [][NextNodePath]_vars

(* --------------------- mount: the configuration walk ------------------- *)

\* a configuration file: its entry name, whether it parses, its driver_name key,
\* and what the driver's dmdrvi_create answers to it (a context and dev, or NULL)
ConfigFile(name, ok, key, created, dev) ==
    [name |-> name, parse_ok |-> ok, driver_name |-> key, create_ok |-> created, dev |-> dev]

dev0 == <<"d", "e", "v", "0">>

ConfigFiles ==
    { ConfigFile(dmclk \o DotIni, TRUE, None, TRUE, DevNum(FALSE, FALSE, 0, 0)),
      ConfigFile(dmspi \o DotIni, TRUE, None, TRUE, DevNum(TRUE, FALSE, 12, 0)),
      ConfigFile(dev0 \o DotIni, TRUE, dmclk, TRUE, DevNum(TRUE, TRUE, 12, 7)),
      ConfigFile(<<"b">> \o DotIni, TRUE, None, TRUE, DevNum(FALSE, TRUE, 0, 0)),
      ConfigFile(<<"b", "a", "d">>, FALSE, None, TRUE, DevNum(FALSE, FALSE, 0, 0)),
      ConfigFile(<<"r">> \o DotIni, TRUE, dmraw, TRUE, DevNum(FALSE, FALSE, 0, 0)),
      ConfigFile(<<"n">> \o DotIni, TRUE, dmclk, FALSE, DevNum(FALSE, FALSE, 0, 0)) }

\* names of the subdirectories the walk meets
SubdirNames == {dmspi, misc}

\* the config argument of dmfsi_init
ConfigArgs == {None, <<>>, <<"c">>}

\* is_driver(name): Dmod_FindMatch finds a module of that name
is_driver(name) == name \in Modules

IsLoaded(loaded, name) == name \in Modules /\ loaded[name]

\* cleanup_driver_module that ignores what was recorded at node creation
cleanup_driver_module_Unconditional(driver_name, was_loaded, was_enabled, loaded, enabled) ==
    [loaded  |-> [loaded EXCEPT ![driver_name] = FALSE],
     enabled |-> [enabled EXCEPT ![driver_name] = FALSE]]

\* cleanup_driver_module: [loaded, enabled] afterwards
cleanup_driver_module(driver_name, was_loaded, was_enabled, loaded, enabled) ==
    [loaded  |-> IF ~was_loaded THEN [loaded EXCEPT ![driver_name] = FALSE] ELSE loaded,
     enabled |-> IF ~was_enabled THEN [enabled EXCEPT ![driver_name] = FALSE] ELSE enabled]

\* prepare_driver_module; loadOk, enableOk: the answers of Dmod_LoadModuleByName
\* and Dmod_EnableModule.  [driver (None: NULL), was_loaded, was_enabled, loaded, enabled]
prepare_driver_module(driver_name, loadOk, enableOk, loaded, enabled) ==
    LET was_loaded == IsLoaded(loaded, driver_name)
        was_enabled == IsLoaded(enabled, driver_name)
        res(drv, l, e) == [driver |-> drv, was_loaded |-> was_loaded,
                           was_enabled |-> was_enabled, loaded |-> l, enabled |-> e]
    IN  IF driver_name \notin Modules \/ ~loadOk
        THEN res(None, loaded, enabled)
        ELSE LET l1 == [loaded EXCEPT ![driver_name] = TRUE]
             IN  IF ~was_enabled /\ ~enableOk
                 THEN res(None, IF ~was_loaded THEN [l1 EXCEPT ![driver_name] = FALSE] ELSE l1,
                          enabled)
                 ELSE res(driver_name, l1, [enabled EXCEPT ![driver_name] = TRUE])

\* configure_driver(driver_name, config_ctx): [node (NoNode: NULL), loaded, enabled]
configure_driver(driver_name, f, loadOk, enableOk, loaded, enabled) ==
    LET p == prepare_driver_module(driver_name, loadOk, enableOk, loaded, enabled)
        undone == cleanup_driver_module(driver_name, p.was_loaded, p.was_enabled,
                                        p.loaded, p.enabled)
        failed == [node |-> NoNode, loaded |-> undone.loaded, enabled |-> undone.enabled]
    IN  IF p.driver = None
        THEN [node |-> NoNode, loaded |-> p.loaded, enabled |-> p.enabled]
        ELSE IF ~HasCap(p.driver, "create") THEN failed
        ELSE IF ~f.create_ok THEN failed
        ELSE LET np == read_driver_node_path(p.driver, f.dev, MAX_PATH_LENGTH)
             IN  IF np.rc # "OK" THEN failed
                 ELSE [node |-> Node(p.driver, f.dev, p.was_loaded, p.was_enabled, np.path),
                       loaded |-> p.loaded, enabled |-> p.enabled]

\* one active configure_drivers call: its driver_name parameter, whether that
\* pointer was left pointing at the dead module_name of the directory branch,
\* what the module_name storage of this call holds since then (None before: it
\* is not read through driver_name until the pointer dangles), and its config_path
Frame(name, dangling, slot, path) ==
    [driver_name |-> name, dangling |-> dangling, slot |-> slot, config_path |-> path]

Top == walk[Len(walk)]

\* full_path of an entry, None when it does not fit (required_len > MAX_PATH_LENGTH)
FullPath(config_path, entry) ==
    LET needs_separator == Len(config_path) > 0 /\ config_path[Len(config_path)] # "/"
        required_len == Len(config_path) + (IF needs_separator THEN 1 ELSE 0) + Len(entry) + 1
    IN  IF required_len > MAX_PATH_LENGTH THEN None
        ELSE config_path \o (IF needs_separator THEN <<"/">> ELSE <<>>) \o entry

\* what a read through driver_name gives: the name it was set to, or, once the
\* pointer dangles and the build put both module_name arrays in one place
\* (shared), whatever that place holds now
DefaultSeen(frame, shared) ==
    IF frame.dangling /\ shared THEN frame.slot ELSE frame.driver_name

\* dmfsi_init that walks the current directory when config is the empty string
InitCall_EmptyPathWalks(config, openOk) ==
    /\ phase = "none"
    /\ IF config = None \/ ~openOk
       THEN /\ last' = [NoLast EXCEPT !.op = "init", !.rc = "NULL"]
            /\ UNCHANGED <<phase, walk>>
       ELSE /\ phase' = "walking"
            /\ walk' = <<Frame(None, FALSE, None, config)>>
            /\ last' = NoLast
    /\ UNCHANGED <<drivers, modLoaded, modEnabled, dirs, files, rin, rout, pre, skippedAt>>

\* dmfsi_init(config) up to the first Dmod_ReadDir; openOk: Dmod_OpenDir succeeded
InitCall(config, openOk) ==
    /\ phase = "none"
    /\ IF config = None \/ config = <<>> \/ ~openOk
       THEN /\ last' = [NoLast EXCEPT !.op = "init", !.rc = "NULL"]
            /\ UNCHANGED <<phase, walk>>
       ELSE /\ phase' = "walking"
            /\ walk' = <<Frame(None, FALSE, None, config)>>
            /\ last' = NoLast
    /\ UNCHANGED <<drivers, modLoaded, modEnabled, dirs, files, rin, rout, pre, skippedAt>>

\* what can go wrong outside the driver while one file is configured: nothing,
\* Dmod_LoadModuleByName, Dmod_EnableModule or dmlist_push_back failing
Faults == {"none", "load", "enable", "push"}

\* the builds that matter when driver_name is read: only a dangling pointer
\* makes the placement of the module_name arrays visible
SharedChoices == IF phase = "walking" /\ Top.dangling THEN BOOLEAN ELSE {FALSE}

\* the loop of configure_drivers leaving the directory at the first entry it
\* cannot configure
WalkFile_AbortOnFailure(f, fault, shared) ==
    /\ phase = "walking"
    /\ Len(drivers) < MaxNodes
    /\ LET full_path == FullPath(Top.config_path, f.name)
           module_name == read_driver_for_config(full_path, Doc(f.parse_ok, f.driver_name),
                              DMOD_MAX_MODULE_NAME_LENGTH, DefaultSeen(Top, shared))
           c == configure_driver(module_name, f, fault # "load", fault # "enable",
                                 modLoaded, modEnabled)
           registered == full_path # None /\ module_name # None
                            /\ c.node # NoNode /\ fault # "push"
       IN  /\ modLoaded' = IF module_name = None THEN modLoaded ELSE c.loaded
           /\ modEnabled' = IF module_name = None THEN modEnabled ELSE c.enabled
           /\ drivers' = IF registered THEN Append(drivers, c.node) ELSE drivers
           /\ skippedAt' = IF registered THEN skippedAt ELSE Len(drivers)
           /\ walk' = IF registered THEN walk ELSE SubSeq(walk, 1, Len(walk) - 1)
           /\ phase' = IF ~registered /\ Len(walk) = 1 THEN "mounted" ELSE phase
    /\ UNCHANGED <<dirs, files, last, rin, rout, pre>>

\* one turn of the loop of configure_drivers on a regular file f
WalkFile(f, fault, shared) ==
    /\ phase = "walking"
    /\ Len(drivers) < MaxNodes
    /\ LET full_path == FullPath(Top.config_path, f.name)
           module_name == read_driver_for_config(full_path, Doc(f.parse_ok, f.driver_name),
                              DMOD_MAX_MODULE_NAME_LENGTH, DefaultSeen(Top, shared))
           c == configure_driver(module_name, f, fault # "load", fault # "enable",
                                 modLoaded, modEnabled)
       IN  IF full_path = None \/ module_name = None
           THEN /\ skippedAt' = Len(drivers)
                /\ UNCHANGED <<walk, drivers, modLoaded, modEnabled>>
           ELSE /\ walk' = IF Top.dangling
                           THEN [walk EXCEPT ![Len(walk)].slot = module_name]
                           ELSE walk
                /\ modLoaded' = c.loaded
                /\ modEnabled' = c.enabled
                /\ drivers' = IF c.node # NoNode /\ fault # "push"
                              THEN Append(drivers, c.node)
                              ELSE drivers
                /\ skippedAt' = IF c.node # NoNode /\ fault # "push"
                                THEN skippedAt
                                ELSE Len(drivers)
    /\ UNCHANGED <<phase, dirs, files, last, rin, rout, pre>>

\* one turn of the loop on a subdirectory; openOk: its Dmod_OpenDir succeeded
WalkSubdir(entry, openOk, shared) ==
    /\ phase = "walking"
    /\ LET full_path == FullPath(Top.config_path, entry)
           module_name == read_base_name(entry, DMOD_MAX_MODULE_NAME_LENGTH)
           here == IF is_driver(module_name)
                   THEN [Top EXCEPT !.driver_name = module_name, !.dangling = TRUE,
                                    !.slot = module_name]
                   ELSE IF Top.dangling THEN [Top EXCEPT !.slot = module_name] ELSE Top
           passed == IF is_driver(module_name) THEN module_name ELSE DefaultSeen(Top, shared)
       IN  IF full_path = None
           THEN UNCHANGED walk /\ skippedAt' = Len(drivers)
           ELSE IF openOk /\ Len(walk) <= MaxDepth
           THEN /\ walk' = Append([walk EXCEPT ![Len(walk)] = here],
                                  Frame(passed, FALSE, None, full_path))
                /\ UNCHANGED skippedAt
           ELSE /\ walk' = [walk EXCEPT ![Len(walk)] = here]
                /\ skippedAt' = IF openOk THEN skippedAt ELSE Len(drivers)
    /\ UNCHANGED <<phase, drivers, modLoaded, modEnabled, dirs, files, last, rin, rout, pre>>

\* Dmod_ReadDir gives NULL: this configure_drivers returns; the outermost one
\* returning ends dmfsi_init, which hands out the context
WalkEnd ==
    /\ phase = "walking"
    /\ walk' = SubSeq(walk, 1, Len(walk) - 1)
    /\ phase' = IF Len(walk) = 1 THEN "mounted" ELSE phase
    /\ last' = IF Len(walk) = 1 THEN [NoLast EXCEPT !.op = "init", !.rc = "ctx"] ELSE last
    /\ UNCHANGED <<drivers, modLoaded, modEnabled, dirs, files, rin, rout, pre, skippedAt>>

RECURSIVE unconfigure_from(_, _, _, _)
\* the loop of unconfigure_drivers from index i on: [loaded, enabled] afterwards
unconfigure_from(list, i, loaded, enabled) ==
    IF i > Len(list) THEN [loaded |-> loaded, enabled |-> enabled]
    ELSE LET c == cleanup_driver_module(list[i].driver, list[i].was_loaded,
                                        list[i].was_enabled, loaded, enabled)
         IN  unconfigure_from(list, i + 1, c.loaded, c.enabled)

RECURSIVE unconfigure_calls_StopAtFailure(_, _, _)
\* unconfigure_drivers that gives up at the node whose dmdrvi_free fails
unconfigure_calls_StopAtFailure(list, i, failed) ==
    IF i > Len(list) THEN <<>>
    ELSE <<[node |-> i, free |-> HasCap(list[i].driver, "free"),
            failed |-> i = failed /\ HasCap(list[i].driver, "free"),
            disabled |-> ~list[i].was_enabled, unloaded |-> ~list[i].was_loaded]>>
         \o (IF i = failed THEN <<>> ELSE unconfigure_calls_StopAtFailure(list, i + 1, failed))

RECURSIVE unconfigure_calls(_, _, _)
\* the loop of unconfigure_drivers from index i on, as the calls it makes per
\* node: dmdrvi_free (free; failed: it reported an error, which nobody reads),
\* Dmod_DisableModule (disabled) and Dmod_UnloadModule (unloaded)
unconfigure_calls(list, i, failed) ==
    IF i > Len(list) THEN <<>>
    ELSE <<[node |-> i, free |-> HasCap(list[i].driver, "free"),
            failed |-> i = failed /\ HasCap(list[i].driver, "free"),
            disabled |-> ~list[i].was_enabled, unloaded |-> ~list[i].was_loaded]>>
         \o unconfigure_calls(list, i + 1, failed)

\* dmfsi_deinit(ctx) on the mounted context; failed: the node whose dmdrvi_free
\* reports an error (0: none).  last.freed keeps the modules of the nodes
\* unconfigure_drivers went through, in order, last.teardown the calls made.
Deinit(failed) ==
    /\ phase = "mounted"
    /\ failed <= Len(drivers)
    /\ LET u == unconfigure_from(drivers, 1, modLoaded, modEnabled)
       IN  modLoaded' = u.loaded /\ modEnabled' = u.enabled
    /\ drivers' = <<>>
    /\ phase' = "dead"
    /\ last' = [NoLast EXCEPT !.op = "deinit", !.rc = "OK",
                              !.freed = [i \in 1..Len(drivers) |-> drivers[i].driver],
                              !.teardown = unconfigure_calls(drivers, 1, failed)]
    /\ UNCHANGED <<walk, dirs, files, rin, rout, pre, skippedAt>>

DMDEVFS_CONTEXT_MAGIC == 1145914454

\* ctx->magic of the context of dmfsi_init: written once, right after the
\* allocation, and gone with the context when dmfsi_deinit frees it
ctx_magic == IF phase \in {"walking", "mounted"} THEN DMDEVFS_CONTEXT_MAGIC ELSE 0

\* what a caller passes for ctx: NULL, or the context dmfsi_init returned
ContextArgs == {"NULL", "ctx"}

\* dmfsi_context_is_valid that takes a file system without drivers for invalid
dmfsi_dmdevfs_context_is_valid_NeedsDrivers(ctx) ==
    IF ctx # "NULL" /\ ctx_magic = DMDEVFS_CONTEXT_MAGIC /\ Len(drivers) > 0 THEN 1 ELSE 0

\* dmfsi_context_is_valid(ctx)
dmfsi_dmdevfs_context_is_valid(ctx) ==
    IF ctx # "NULL" /\ ctx_magic = DMDEVFS_CONTEXT_MAGIC THEN 1 ELSE 0

\* a call of dmfsi_context_is_valid between init and deinit
ContextIsValid(ctx) ==
    /\ phase = "mounted"
    /\ last' = [NoLast EXCEPT !.op = "context_is_valid",
                              !.value = dmfsi_dmdevfs_context_is_valid(ctx)]
    /\ UNCHANGED <<phase, walk, drivers, modLoaded, modEnabled, dirs, files, rin, rout, pre, skippedAt>>

\* what the module system holds before the mount: nothing, or modules that
\* other owners loaded, or loaded and enabled
Init ==
    /\ phase = "none" /\ walk = <<>> /\ drivers = <<>>
    /\ modLoaded \in [Modules -> BOOLEAN]
    /\ modEnabled \in [Modules -> BOOLEAN]
    /\ \A m \in Modules : modEnabled[m] => modLoaded[m]
    /\ ~modLoaded[dmraw] /\ ~modLoaded[dmled]
    /\ modLoaded[dmspi] => modEnabled[dmspi]
    /\ dirs = [d \in DirIds |-> NoDir]
    /\ files = [h \in FileIds |-> NoFile]
    /\ last = NoLast
    /\ rin = None /\ rout = None
    /\ pre = [loaded |-> modLoaded, enabled |-> modEnabled]
    /\ skippedAt = -1

Next ==
    \/ \E config \in ConfigArgs, openOk \in BOOLEAN : InitCall(config, openOk)
    \/ \E f \in ConfigFiles, fault \in Faults, shared \in SharedChoices :
          WalkFile(f, fault, shared)
    \/ \E entry \in SubdirNames, openOk \in BOOLEAN, shared \in SharedChoices :
          WalkSubdir(entry, openOk, shared)
    \/ WalkEnd
    \/ \E failed \in 0..MaxNodes : Deinit(failed)

\* the life of one context: mount, then unmount
Spec == Init /\ [][Next]_vars

\* the configuration files that name their driver, and the one that does not parse
LifeFiles == {f \in ConfigFiles : f.driver_name # None \/ ~f.parse_ok}

NextLife ==
    \/ \E config \in ConfigArgs, openOk \in BOOLEAN : InitCall(config, openOk)
    \/ \E f \in LifeFiles, fault \in Faults, shared \in SharedChoices :
          WalkFile(f, fault, shared)
    \/ \E entry \in SubdirNames, openOk \in BOOLEAN, shared \in SharedChoices :
          WalkSubdir(entry, openOk, shared)
    \/ WalkEnd
    \/ \E ctx \in ContextArgs : ContextIsValid(ctx)
    \/ \E failed \in 0..MaxNodes : Deinit(failed)

\* mount and unmount over the configuration files of LifeFiles
SpecLife == Init /\ [][NextLife]_vars

NextUnmount ==
    \/ \E h \in FileIds, path \in FilePaths, mode \in Modes, attr \in Attrs,
          allocOk \in BOOLEAN, openOk \in BOOLEAN, dupOk \in BOOLEAN :
              Fopen(h, path, mode, attr, allocOk, openOk, dupOk)
    \/ \E h \in FileIds : Fclose(h)
    \/ \E failed \in 0..MaxNodes : Deinit(failed)

\* file handles on a mounted file system, and its unmount
SpecUnmount == InitFile /\ [][NextUnmount]_vars

(* ======================= claims: name resolution ======================= *)

\* position of the first character of the file name in a path
BaseStart(path) == LET slashes == {i \in 1..Len(path) : path[i] = "/"}
                   IN  IF slashes = {} THEN 1
                       ELSE 1 + CHOOSE i \in slashes : \A j \in slashes : j <= i

\* the path names a file "<y>.ini"
IsIniFileOf(path, y) == SubSeq(path, BaseStart(path), Len(path)) = y \o DotIni

Stems == {dmclk, mydrv, <<"d", "e", "v", "0">>, <<"a", ".", "b">>, longname}

IsPrefixOf(p, s) == Len(p) <= Len(s) /\ \A i \in 1..Len(p) : p[i] = s[i]

Resolved == rout # Pending /\ rin.parse_ok

\* C9 as stated: a document with driver_name = X resolves to X, whatever the
\* file name and the inherited default.
C9_KeyIsResolvedName ==
    (Resolved /\ rin.driver_name # None) => rout = rin.driver_name

\* C9 amended: a document with driver_name = X resolves to X cut to the name
\* buffer (X itself when X is shorter than DMOD_MAX_MODULE_NAME_LENGTH, else its
\* first DMOD_MAX_MODULE_NAME_LENGTH - 1 characters), whatever the file name
\* and the inherited default.
C9_KeyIsResolvedNameCut ==
    (Resolved /\ rin.driver_name # None) =>
        /\ IsPrefixOf(rout, rin.driver_name)
        /\ Len(rout) = IF Len(rin.driver_name) < DMOD_MAX_MODULE_NAME_LENGTH
                       THEN Len(rin.driver_name)
                       ELSE DMOD_MAX_MODULE_NAME_LENGTH - 1

\* the key names one module, the file another name, the directory a third
C9_Witness ==
    /\ Resolved /\ rin.driver_name = dmclk /\ rin.default_driver = dmspi
    /\ IsIniFileOf(rin.config_path, mydrv) /\ rout = dmclk

DigitVal(c) == CASE c = "0" -> 0 [] c = "1" -> 1 [] c = "2" -> 2 [] c = "3" -> 3
                 [] c = "4" -> 4 [] c = "5" -> 5 [] c = "6" -> 6 [] c = "7" -> 7
                 [] c = "8" -> 8 [] c = "9" -> 9 [] OTHER -> -1

\* s is an unsigned decimal numeral without a leading zero
IsDecimal(s) == /\ Len(s) >= 1
                /\ \A i \in 1..Len(s) : DigitVal(s[i]) >= 0
                /\ (Len(s) > 1 => s[1] # "0")

RECURSIVE ParseU(_)
\* the number a decimal numeral denotes
ParseU(s) == IF s = <<>> THEN 0
             ELSE 10 * ParseU(SubSeq(s, 1, Len(s) - 1)) + DigitVal(s[Len(s)])

\* text is name followed by the decimal numeral of n
IsNameAndNumber(text, name, n) ==
    /\ Len(text) > Len(name)
    /\ SubSeq(text, 1, Len(name)) = name
    /\ IsDecimal(SubSeq(text, Len(name) + 1, Len(text)))
    /\ ParseU(SubSeq(text, Len(name) + 1, Len(text))) = n

HasSlash(text) == \E i \in 1..Len(text) : text[i] = "/"

\* the rows of the parent-directory table
IsTableParent(p, name, dev) ==
    IF dev.major_given /\ dev.minor_given
    THEN /\ Len(p) >= 1 /\ p[Len(p)] = "/"
         /\ IsNameAndNumber(SubSeq(p, 1, Len(p) - 1), name, dev.major)
    ELSE IF dev.minor_given
    THEN p = name \o <<"x", "/">>
    ELSE p = <<"/">>

\* an iterator whose latest readdir did not return OK: it was drained
Drained(d) == dirs[d].open /\ dirs[d].last \notin {"none", "OK"}

\* the yielded entries of iterator d that the file branch made for node i
FileEntriesOf(d, i) ==
    {k \in 1..Len(dirs[d].out) : dirs[d].out[k].branch = "file" /\ dirs[d].out[k].node = i}

\* C1: the parent directory read_driver_parent_directory computes for a node is
\* "<driver_name><major>/" with major and minor, "<driver_name>x/" with only a
\* minor, and "/" with only a major or with neither.
C1_ParentDirectoryTable ==
    \A i \in 1..Len(drivers) :
        IsTableParent(ParentOf(drivers[i]), drivers[i].driver, drivers[i].dev_num)

\* the root listing has yielded a node that has only a major number
C1_Witness ==
    \E d \in DirIds, i \in 1..Len(drivers) :
        /\ drivers[i].dev_num.major_given /\ ~drivers[i].dev_num.minor_given
        /\ dirs[d].open /\ dirs[d].directory_path = <<"/">>
        /\ FileEntriesOf(d, i) # {}

\* C3 as stated: once the root directory is drained, every node without a minor
\* number was yielded by the file branch.
C3_RootListsNodesWithoutMinor ==
    \A d \in DirIds :
        (Drained(d) /\ dirs[d].directory_path = <<"/">>) =>
            \A i \in 1..Len(drivers) :
                ~drivers[i].dev_num.minor_given => FileEntriesOf(d, i) # {}

\* C4 as stated: once the root directory is drained, each grouping directory of
\* a node with a minor number was yielded as exactly one synthetic directory entry.
C4_OneDirectoryEntryPerGroup ==
    \A d \in DirIds :
        (Drained(d) /\ dirs[d].directory_path = <<"/">>) =>
            \A i \in 1..Len(drivers) :
                drivers[i].dev_num.minor_given =>
                    Cardinality({k \in 1..Len(dirs[d].out) :
                                    /\ dirs[d].out[k].branch = "directory"
                                    /\ dirs[d].out[k].name = ParentOf(drivers[i])}) = 1

\* C5 as stated: once a directory G that is the parent directory of some node
\* is drained, each node whose parent directory is G was yielded as exactly one
\* file entry, and nothing else was yielded.
C5_GroupListsItsNodes ==
    \A d \in DirIds :
        (Drained(d) /\ \E j \in 1..Len(drivers) : ParentOf(drivers[j]) = dirs[d].directory_path) =>
            /\ \A i \in 1..Len(drivers) :
                  ParentOf(drivers[i]) = dirs[d].directory_path
                      => Cardinality(FileEntriesOf(d, i)) = 1
            /\ \A k \in 1..Len(dirs[d].out) :
                  /\ dirs[d].out[k].branch = "file"
                  /\ ParentOf(drivers[dirs[d].out[k].node]) = dirs[d].directory_path

\* C6 as stated: the name of every file entry is the leaf name alone: the minor
\* number inside a grouping directory, "<driver_name>" or "<driver_name><major>"
\* in the root; it holds no '/'.
C6_FileEntryNameIsLeaf ==
    \A d \in DirIds : \A k \in 1..Len(dirs[d].out) :
        LET e == dirs[d].out[k]
            n == drivers[e.node]
        IN  e.branch = "file" =>
                /\ ~HasSlash(e.name)
                /\ IF n.dev_num.minor_given
                   THEN IsDecimal(e.name) /\ ParseU(e.name) = n.dev_num.minor
                   ELSE IF n.dev_num.major_given
                   THEN IsNameAndNumber(e.name, n.driver, n.dev_num.major)
                   ELSE e.name = n.driver

(* ========================= claims: path lookup ========================= *)

\* the rows of the canonical-path table
IsTableCanonical(text, name, dev) ==
    IF dev.major_given /\ dev.minor_given
    THEN \E k \in 1..Len(text) :
            /\ text[k] = "/"
            /\ IsNameAndNumber(SubSeq(text, 1, k - 1), name, dev.major)
            /\ IsDecimal(SubSeq(text, k + 1, Len(text)))
            /\ ParseU(SubSeq(text, k + 1, Len(text))) = dev.minor
    ELSE IF dev.minor_given
    THEN /\ Len(text) > Len(name) + 2
         /\ SubSeq(text, 1, Len(name) + 2) = name \o <<"x", "/">>
         /\ IsDecimal(SubSeq(text, Len(name) + 3, Len(text)))
         /\ ParseU(SubSeq(text, Len(name) + 3, Len(text))) = dev.minor
    ELSE IF dev.major_given
    THEN IsNameAndNumber(text, name, dev.major)
    ELSE text = name

\* C2 as stated: the path stored in every registered node is exactly
\* "<driver_name><major>/<minor>", "<driver_name>x/<minor>", "<driver_name><major>"
\* or "<driver_name>", by the numbers its descriptor has, and nothing more.
C2_StoredPathIsCanonical ==
    \A i \in 1..Len(drivers) :
        IsTableCanonical(drivers[i].path, drivers[i].driver, drivers[i].dev_num)

\* C7 as stated: "/" followed by the canonical path of a registered node
\* resolves to that node, so stat on it does not report NOT_FOUND.
C7_SlashCanonicalPathResolves ==
    \A i \in 1..Len(drivers) :
        ( /\ last.op = "stat"
          /\ Len(last.path) >= 1 /\ last.path[1] = "/"
          /\ IsTableCanonical(Tail(last.path), drivers[i].driver, drivers[i].dev_num) )
        => /\ last.rc # "NOT_FOUND"
           /\ last.node # 0
           /\ drivers[last.node].driver = drivers[i].driver
           /\ drivers[last.node].dev_num = drivers[i].dev_num

\* C8: find_driver_node(path) gives the (first) registered node whose stored path
\* is exactly path, and no node for any other string, a proper prefix of a stored
\* path included; stat then reports NOT_FOUND.
C8_LookupIsExact ==
    last.op = "stat" =>
        /\ last.node # 0 =>
              /\ drivers[last.node].path = last.path
              /\ \A j \in 1..(last.node - 1) : drivers[j].path # last.path
        /\ last.node = 0 =>
              /\ \A i \in 1..Len(drivers) : drivers[i].path # last.path
              /\ last.rc = "NOT_FOUND"

\* stat on a proper, non-empty prefix of a stored path reported NOT_FOUND
C8_Witness ==
    /\ last.op = "stat" /\ last.rc = "NOT_FOUND" /\ last.node = 0
    /\ Len(last.path) > 0
    /\ \E i \in 1..Len(drivers) :
          IsPrefixOf(last.path, drivers[i].path) /\ last.path # drivers[i].path

(* ========================= claims: module state ======================== *)

\* how many of the nodes torn down by the last deinit were instances of module m
TornDown(m) == Cardinality({i \in 1..Len(last.freed) : last.freed[i] = m})

Unmounted == phase = "dead" /\ last.op = "deinit"

\* C11: a module that was loaded and enabled before the mount is loaded and
\* enabled in every state of the mount, of the mounted file system and after
\* the unmount: no step of init or deinit unloads or disables it, however many
\* driver instances were configured on it.
C11_PreloadedModuleStays ==
    \A m \in Modules :
        pre.loaded[m] /\ pre.enabled[m] => modLoaded[m] /\ modEnabled[m]

\* an unmount that tore down two instances of a module another owner had
\* loaded and enabled before the mount
C11_Witness ==
    /\ Unmounted
    /\ \E m \in Modules : pre.loaded[m] /\ pre.enabled[m] /\ TornDown(m) >= 2

\* C12: a module that was neither loaded nor enabled before the mount and on
\* which the mount configured one or several instances is disabled and
\* unloaded after the unmount.
C12_FreshModuleIsReleased ==
    Unmounted =>
        \A m \in Modules :
            ~pre.loaded[m] /\ ~pre.enabled[m] /\ TornDown(m) >= 1
                => ~modLoaded[m] /\ ~modEnabled[m]

(* ===================== claims: opening directories ===================== *)

\* what a caller sees of a yielded entry
Seen(e) == [name |-> e.name, size |-> e.size, attr |-> e.attr]

SeenAll(out) == [i \in 1..Len(out) |-> Seen(out[i])]

\* iterator d is drained over the directory whose drained iterator was closed
\* just before it was opened
DrainedAgain(d) ==
    /\ Drained(d)
    /\ last.op = "closedir"
    /\ last.path = dirs[d].directory_path

\* C13: draining the same directory twice in succession over an unchanged
\* registry yields the same sequence of entries (name, size, attribute).
C13_SecondDrainIsTheSame ==
    \A d \in DirIds :
        DrainedAgain(d) => SeenAll(dirs[d].out) = SeenAll(last.entries)

\* a second drain that yielded two entries
C13_Witness ==
    \E d \in DirIds : DrainedAgain(d) /\ Len(dirs[d].out) >= 2

\* C14: opendir returns OK only for the root and for a path equal to the
\* parent directory of a registered node.
C14_OpendirOnlyDirectories ==
    \A d \in DirIds :
        dirs[d].rc = "OK" =>
            \/ dirs[d].directory_path = ROOT_DIRECTORY_NAME
            \/ \E i \in 1..Len(drivers) : ParentOf(drivers[i]) = dirs[d].directory_path

(* ========================== claims: file handles ====================== *)

LastHasCap(cap) == HasCap(drivers[last.node].driver, cap)

\* C16: fread and fwrite return OK with the driver's count, zero included, and
\* NOT_FOUND with count 0 exactly when the driver has no read (write) capability.
C16_TransferResults ==
    /\ last.op = "fread" =>
          IF LastHasCap("read")
          THEN last.rc = "OK" /\ last.calls = 1 /\ last.value = last.given
          ELSE last.rc = "NOT_FOUND" /\ last.calls = 0 /\ last.value = 0
    /\ last.op = "fwrite" =>
          IF LastHasCap("write")
          THEN last.rc = "OK" /\ last.calls = 1 /\ last.value = last.given
          ELSE last.rc = "NOT_FOUND" /\ last.calls = 0 /\ last.value = 0

\* a read of zero bytes out of three asked for
C16_Witness ==
    last.op = "fread" /\ last.calls = 1 /\ last.given = 0 /\ last.size > 0

\* C17: fflush and sync return OK without a driver call when the driver has no
\* flush capability; otherwise they call it once and return OK for 0, GENERAL
\* for anything else.
C17_FlushResults ==
    last.op \in {"fflush", "sync"} =>
        IF LastHasCap("flush")
        THEN last.calls = 1 /\ last.rc = (IF last.given = 0 THEN "OK" ELSE "GENERAL")
        ELSE last.calls = 0 /\ last.rc = "OK"

\* a flush through a driver without the flush capability
C17_Witness ==
    last.op = "fflush" /\ ~LastHasCap("flush") /\ last.rc = "OK"

\* C18: a step of unlink, rename or mkdir never reports OK and changes neither
\* the registry nor a file handle nor a directory iterator nor a module.
C18_RefusedCallsChangeNothing ==
    [][ (last' # last /\ last'.op \in {"unlink", "rename", "mkdir"})
            => /\ last'.rc # "OK"
               /\ UNCHANGED <<phase, drivers, files, dirs, modLoaded, modEnabled>> ]_vars

\* an unlink of a registered path that was refused while a file handle was open
C18_Witness ==
    /\ last.op = "unlink" /\ last.rc = "GENERAL"
    /\ find_driver_node(drivers, last.path) # 0
    /\ \E h \in FileIds : files[h].open

(* ===================== claims: the configuration walk ================== *)

\* the module an entry resolves to in the directory the walk is in
ResolvedFor(f, shared) ==
    read_driver_for_config(FullPath(Top.config_path, f.name), Doc(f.parse_ok, f.driver_name),
                           DMOD_MAX_MODULE_NAME_LENGTH, DefaultSeen(Top, shared))

\* configuring entry f fails at one of its steps: the document does not parse,
\* the module cannot be found, loaded or enabled, it has no create capability,
\* create gives no context, or the node cannot be appended
EntryFails(f, fault, shared) ==
    LET m == ResolvedFor(f, shared)
    IN  \/ ~f.parse_ok
        \/ m \notin Modules
        \/ fault = "load"
        \/ fault = "enable" /\ ~modEnabled[m]
        \/ ~HasCap(m, "create")
        \/ ~f.create_ok
        \/ fault = "push"

\* the walk is still in the same call of configure_drivers, same directory
SameDirectory ==
    /\ phase' = "walking"
    /\ Len(walk') = Len(walk)
    /\ walk'[Len(walk')].config_path = Top.config_path

\* C19: an entry that fails is skipped and nothing else: the walk stays in its
\* directory with the registry as it was, and an entry that does not fail is
\* appended to the registry whatever was skipped before it; a subdirectory
\* that cannot be read leaves the walk in the directory it was in.
C19_FailedEntryIsSkippedAlone ==
    [][ /\ \A f \in LifeFiles, fault \in Faults, shared \in SharedChoices :
             WalkFile(f, fault, shared) =>
                 /\ SameDirectory
                 /\ IF EntryFails(f, fault, shared)
                    THEN drivers' = drivers
                    ELSE /\ Len(drivers') = Len(drivers) + 1
                         /\ SubSeq(drivers', 1, Len(drivers)) = drivers
                         /\ drivers'[Len(drivers')].driver = ResolvedFor(f, shared)
                         /\ drivers'[Len(drivers')].dev_num = f.dev
        /\ \A entry \in SubdirNames, shared \in SharedChoices :
             WalkSubdir(entry, FALSE, shared) => SameDirectory /\ drivers' = drivers
      ]_vars

\* an entry was registered, the next one was skipped, a later one was registered
C19_Witness ==
    phase = "walking" /\ Len(drivers) = 2 /\ skippedAt = 1

\* the arguments for which dmfsi_init gives no context
InitRefuses(config, openOk) == config = None \/ config = <<>> \/ ~openOk

\* C20: init gives no context exactly for a NULL or empty config path or a
\* top-level directory that cannot be opened; once the walk has started it
\* ends with a context; and when init gave no context the registry is empty
\* and the modules are as they were before the call.
C20_InitFailsOnlyAtTheTop ==
    /\ [](last.op = "init" /\ last.rc = "NULL"
             => /\ phase = "none" /\ drivers = <<>>
                /\ modLoaded = pre.loaded /\ modEnabled = pre.enabled)
    /\ [][ /\ \A config \in ConfigArgs, openOk \in BOOLEAN :
                 InitCall(config, openOk) =>
                     IF InitRefuses(config, openOk)
                     THEN phase' = "none" /\ last'.op = "init" /\ last'.rc = "NULL"
                     ELSE phase' = "walking"
            /\ phase = "walking" =>
                 /\ phase' \in {"walking", "mounted"}
                 /\ phase' = "mounted" => last'.op = "init" /\ last'.rc = "ctx"
          ]_vars

\* init gave a context although the walk had skipped an entry
C20_Witness ==
    phase = "mounted" /\ last.op = "init" /\ last.rc = "ctx" /\ skippedAt >= 0

(* ====================== claims: argument checks ======================== *)

\* the result an operation reports for a call it refuses
ErrorResult(r) ==
    CASE r.op \in {"tell", "size", "getc", "putc"} -> r.value = -1
      [] r.op = "direxists" -> r.value = 0
      [] r.op = "eof" -> r.value = 1
      [] OTHER -> r.rc = "INVALID"

\* a step that is a call with a context that fails validation
InvalidContextCall ==
    \/ last' # last /\ last'.check = "context"
    \/ \E path \in ApiPaths :
          \/ Unlink(FALSE, path)
          \/ Rename(FALSE, path, <<"/">> \o dmclk)
          \/ Mkdir(FALSE, path)

\* C21: every operation called with a context that fails validation returns
\* its error result (INVALID, -1 for tell, size, getc and putc, 0 for
\* direxists, 1 for eof), resolves no node, calls no driver and leaves the
\* registry, the module state, every handle and every iterator as they were.
C21_InvalidContextChangesNothing ==
    [][InvalidContextCall =>
          /\ UNCHANGED <<phase, drivers, modLoaded, modEnabled, files, dirs>>
          /\ ErrorResult(last')
          /\ last'.node = 0 /\ last'.calls = 0]_vars

\* fclose was refused for its context while a handle and an iterator were open
C21_Witness ==
    /\ last.op = "fclose" /\ last.check = "context" /\ last.rc = "INVALID"
    /\ \E h \in FileIds : files[h].open
    /\ \E d \in DirIds : dirs[d].open

\* C22: on a valid context a call with a NULL required argument reports an
\* invalid-usage error (INVALID, 0 for direxists) before it reads or writes
\* through that argument and before it resolves a node or calls a driver: no
\* access through NULL ever traps, and a stat, direxists or opendir of a NULL
\* path is refused.
C22_NullArgumentIsRefused ==
    /\ phase # "trapped"
    /\ last.op \in {"stat", "direxists", "opendir"} /\ last.path = None
          /\ last.check # "context"
          => ErrorResult(last) /\ last.node = 0
    /\ \A d \in DirIds : dirs[d].open => dirs[d].directory_path \in ApiPaths \ {None}

(* ======================== claims: the context ========================== *)

C24_RootAlwaysOpens ==
    [][/\ Direxists(ROOT_DIRECTORY_NAME) => last'.value = 1
       /\ \A d \in DirIds, allocOk \in BOOLEAN :
             Opendir(d, ROOT_DIRECTORY_NAME, allocOk)
                => dirs'[d].open /\ dirs'[d].rc = "OK"
       /\ \A d \in DirIds :
             /\ Readdir(d) /\ drivers = <<>> /\ dirs[d].last = "none"
                   => dirs'[d].last = "NOT_FOUND" /\ dirs'[d].out = <<>>
             /\ Closedir(d) /\ drivers = <<>> /\ dirs[d].last = "NOT_FOUND"
                   => last'.rc = "OK" /\ dirs'[d] = NoDir]_vars

\* C24, amended: opendir("/") gives OK and an iterator whenever the iterator
\* can be allocated, and GENERAL without an iterator when it cannot; the rest
\* as stated.
C24_RootOpensWithAllocation ==
    [][/\ Direxists(ROOT_DIRECTORY_NAME) => last'.value = 1
       /\ \A d \in DirIds, allocOk \in BOOLEAN :
             Opendir(d, ROOT_DIRECTORY_NAME, allocOk)
                => IF allocOk THEN dirs'[d].open /\ dirs'[d].rc = "OK"
                              ELSE ~dirs'[d].open /\ dirs'[d].rc = "GENERAL"
       /\ \A d \in DirIds :
             /\ Readdir(d) /\ drivers = <<>> /\ dirs[d].last = "none"
                   => dirs'[d].last = "NOT_FOUND" /\ dirs'[d].out = <<>>
             /\ Closedir(d) /\ drivers = <<>> /\ dirs[d].last = "NOT_FOUND"
                   => last'.rc = "OK" /\ dirs'[d] = NoDir]_vars

\* the root of an empty registry was opened, read once and closed
C24_Witness ==
    /\ drivers = <<>>
    /\ last.op = "closedir" /\ last.rc = "OK" /\ last.path = ROOT_DIRECTORY_NAME
    /\ last.entries = <<>>

(* ========================= claims: the registry ======================== *)

\* C25: in every state of a live registry no two registered nodes have the
\* same path, whatever configuration files the walk met.
C25_PathsAreUnique ==
    \A i, j \in 1..Len(drivers) : i # j => drivers[i].path # drivers[j].path

\* C29: between init and deinit no filesystem operation adds, removes,
\* reorders or changes a registry entry (path, device numbers, module,
\* was_loaded, was_enabled), nor what the module system holds.
C29_OperationsLeaveTheRegistry ==
    [][phase = "mounted" =>
          /\ drivers' = drivers
          /\ modLoaded' = modLoaded /\ modEnabled' = modEnabled
          /\ pre' = pre]_vars

\* a handle and an iterator are in use on a registered node, and a transfer
\* went through
C29_Witness ==
    /\ drivers # <<>>
    /\ \E h \in FileIds : files[h].open
    /\ \E d \in DirIds : dirs[d].open /\ dirs[d].out # <<>>
    /\ last.op = "fwrite" /\ last.rc = "OK" /\ last.calls = 1

(* ========================== claims: teardown =========================== *)

\* how often the last deinit called dmdrvi_free on node i
FreeCalls(i) ==
    Cardinality({k \in 1..Len(last.teardown) :
                    last.teardown[k].node = i /\ last.teardown[k].free})

\* C26: deinit goes through every registered node: dmdrvi_free is called
\* exactly once on each node whose driver has it and never on the others, also
\* after the dmdrvi_free of an earlier node reported an error, no operation but
\* deinit calls it on a registered node, and deinit leaves the registry empty.
C26_TeardownIsExhaustive ==
    /\ [](phase = "mounted" => last.teardown = <<>>)
    /\ [][\A failed \in 0..MaxNodes :
             Deinit(failed) =>
                /\ drivers' = <<>>
                /\ Len(last'.teardown) = Len(drivers)
                /\ \A i \in 1..Len(drivers) :
                      /\ last'.teardown[i].node = i
                      /\ last'.teardown[i].free = HasCap(drivers[i].driver, "free")]_vars
    /\ [](phase = "dead" =>
             \A i \in 1..Len(last.freed) :
                FreeCalls(i) = IF HasCap(last.freed[i], "free") THEN 1 ELSE 0)

\* an unmount whose first node reported an error from dmdrvi_free, followed
\* by a node whose driver has dmdrvi_free too
C26_Witness ==
    /\ phase = "dead" /\ Len(last.teardown) = 2
    /\ last.teardown[1].failed /\ last.teardown[2].free

\* the nodes of module m the last deinit went through: each holds one load
\* of the module, made by prepare_driver_module
Acquired(m) == TornDown(m)

\* the nodes of module m for which the last deinit called Dmod_UnloadModule
Released(m) ==
    Cardinality({i \in 1..Len(last.teardown) :
                    last.freed[i] = m /\ last.teardown[i].unloaded})

\* C27: over a mount and the unmount after it every load of a module that the
\* core made, one per configured driver instance, is given back by an unload,
\* so a module system that counts references ends where it started.
C27_EveryLoadIsReleased ==
    Unmounted => \A m \in Modules : Released(m) = Acquired(m)

\* C28: every open file handle refers to a node that is still registered, in
\* a file system that is still mounted, with its module still loaded.
C28_HandleHasItsNode ==
    \A h \in FileIds :
        files[h].open =>
            /\ phase = "mounted"
            /\ files[h].driver \in 1..Len(drivers)
            /\ modLoaded[drivers[files[h].driver].driver]

(* ====================== claims: several iterators ====================== *)

\* the iterator opendir gives for path on the registry as it is
Fresh(path) ==
    [NoDir EXCEPT !.open = TRUE, !.rc = "OK", !.directory_path = path,
                  !.driver = get_next_driver_node(drivers, 0, path)]

RECURSIVE Alone(_, _)
\* the iterator on path after k calls of readdir, nothing else going on
Alone(path, k) ==
    IF k = 0 THEN Fresh(path) ELSE readdir_step(drivers, Alone(path, k - 1))

\* C30: iterators open at the same time on an unchanged registry do not
\* affect each other: under every interleaving of opendir, readdir and
\* closedir each open iterator is where the same number of readdir calls would
\* have taken it alone, entries yielded included, and a step on one iterator
\* leaves every other iterator as it was.
C30_IteratorsAreIndependent ==
    /\ [](\A d \in IterIds :
             dirs[d].open =>
                \E k \in 0..(Len(drivers) + 1) :
                    dirs[d] = Alone(dirs[d].directory_path, k))
    /\ [][\A d, e \in IterIds :
             d # e /\ dirs'[d] # dirs[d] => dirs'[e] = dirs[e]]_vars

\* one iterator was drained over two entries and closed while another on the
\* same directory stood after its first entry
C30_Witness ==
    /\ dirs[1] = NoDir
    /\ last.op = "closedir" /\ Len(last.entries) = 2
    /\ dirs[2].open /\ dirs[2].directory_path = last.path
    /\ Len(dirs[2].out) = 1 /\ dirs[2].driver # 0

(* ===================== claims: stat on directories ===================== *)

\* C31 as stated: stat gives statistics for directories as well as files: on
\* every path for which direxists returns 1 (the root and every grouping
\* directory) stat returns OK and reports the directory attribute.
C31_StatKnowsDirectories ==
    ( /\ last.op = "stat"
      /\ last.path # <<>>
      /\ \/ last.path = ROOT_DIRECTORY_NAME
         \/ \E i \in 1..Len(drivers) : last.path = ParentOf(drivers[i]) )
    => /\ is_directory(drivers, last.path)
       /\ last.rc = "OK"
       /\ last.attr = DMFSI_ATTR_DIRECTORY

(* ===================== claims: exhausted iterators ===================== *)

\* the last readdir on iterator d reported no more entries
Exhausted(d) == dirs[d].open /\ dirs[d].last = "NOT_FOUND"

\* C32: once readdir on an open iterator found the cursor absent and reported
\* no more entries, every later readdir on it before closedir reports the same,
\* writes no entry and leaves the iterator as it is; only closedir ends the
\* exhausted state.
C32_ExhaustedIsAbsorbing ==
    /\ [](\A d \in DirIds :
             Exhausted(d) => /\ dirs[d].driver = 0
                             /\ readdir_step(drivers, dirs[d]) = dirs[d])
    /\ [][\A d \in DirIds :
             Exhausted(d) /\ dirs'[d] # dirs[d] => dirs'[d] = NoDir]_vars

\* an iterator is exhausted after it yielded every entry of a directory with
\* two nodes in it
C32_Witness ==
    \E d \in DirIds : Exhausted(d) /\ Len(dirs[d].out) = 2

(* ======================= claims: readdir's steps ======================= *)

\* the entry readdir owes for the node under the cursor of iterator dn: a file
\* entry with the driver's size and attribute when the node's parent directory
\* is the iterator's directory, a directory entry named by the node's parent
\* directory, of size 0, otherwise
EntryFor(dn) ==
    LET node == drivers[dn.driver]
        st == driver_stat(node, node.path)
    IN  IF ParentOf(node) = dn.directory_path
        THEN [name |-> node.path, size |-> st.size, attr |-> st.mode]
        ELSE [name |-> ParentOf(node), size |-> 0, attr |-> DMFSI_ATTR_DIRECTORY]

\* C33 as stated: every readdir call that finds a cursor node classifies it by
\* comparing the node's parent directory with the iterator's directory (equal:
\* file entry with the size and attribute of the driver's stat; different:
\* directory entry of size 0 with the directory attribute) and then moves the
\* cursor to the next matching node after the current one, in both branches.
C33_ReaddirClassifiesAndAdvances ==
    [][\A d \in DirIds :
          ( /\ dirs[d].open /\ dirs[d].driver # 0
            /\ dirs'[d].open /\ dirs'[d] # dirs[d] )
          => /\ dirs'[d].entry = EntryFor(dirs[d])
             /\ dirs'[d].driver =
                   get_next_driver_node(drivers, dirs[d].driver, dirs[d].directory_path)]_vars

(* ===================== claims: the next node lookup ==================== *)

\* the first node after position after (0: from the start) whose parent
\* directory is parent_path, 0 when there is none
NextWithParent(list, after, parent_path) ==
    LET hits == {i \in (after + 1)..Len(list) : ParentOf(list[i]) = parent_path}
    IN  IF hits = {} THEN 0 ELSE CHOOSE i \in hits : \A j \in hits : i <= j

\* the node the cursor of iterator dn was on when readdir last advanced it
YieldedLast(dn) == IF dn.out = <<>> THEN 0 ELSE dn.out[Len(dn.out)].node

\* C34 as stated: get_next_driver_node(after, parent_path) gives the first
\* node, in insertion order, strictly after 'after' (from the start when
\* 'after' is absent) whose parent directory is equal to parent_path, and no
\* node when there is none; a node whose parent directory only starts with
\* parent_path is not given.  The cursor of every iterator that opendir or a
\* successful readdir has just set is therefore that node.
C34_NextNodeHasEqualParent ==
    \A d \in DirIds :
        dirs[d].open /\ dirs[d].last \in {"none", "OK"} =>
            /\ dirs[d].driver =
                  NextWithParent(drivers, YieldedLast(dirs[d]), dirs[d].directory_path)
            /\ \A after \in 0..Len(drivers) :
                  get_next_driver_node(drivers, after, dirs[d].directory_path)
                     = NextWithParent(drivers, after, dirs[d].directory_path)

(* ================== claims: the inherited driver name ================== *)

\* C35 as stated: in configure_drivers a driver name taken from a subdirectory
\* is the default only for the walk into that subdirectory: the call that met
\* the subdirectory keeps the default it inherited for every entry it
\* processes afterwards, so a file of the top directory, whose inherited
\* default is absent, is configured as with no default whatever came before it.
C35_SubdirectoryDefaultIsLocal ==
    [][ /\ \A i \in 1..Len(walk) :
              i <= Len(walk') =>
                 \A shared \in BOOLEAN :
                     DefaultSeen(walk'[i], shared) = walk[i].driver_name
        /\ ( phase = "walking" /\ Len(walk) = 1 /\ Len(drivers') = Len(drivers) + 1 )
           => \E f \in ConfigFiles :
                 /\ drivers'[Len(drivers')].dev_num = f.dev
                 /\ drivers'[Len(drivers')].driver =
                       read_driver_for_config(FullPath(walk[1].config_path, f.name),
                                              Doc(f.parse_ok, f.driver_name),
                                              DMOD_MAX_MODULE_NAME_LENGTH, None) ]_vars

(* ================= claims: cleanup after a failed entry ================ *)

\* C36 as stated: whenever configuring an entry fails after its module was
\* acquired (no create capability, no memory for the node, create failing, the
\* path not fitting, or the node not going into the registry), no node of that
\* entry is in the registry and the acquisition is reversed as recorded:
\* disabled iff the module was not enabled before, unloaded iff it was not
\* loaded before.  A turn of the walk that registers nothing therefore leaves
\* every module loaded and enabled exactly as it found it.
C36_FailedEntryIsUndone ==
    [][ phase = "walking" /\ drivers' = drivers
        => modLoaded' = modLoaded /\ modEnabled' = modEnabled ]_vars

(* ==================== claims: the order of teardown ==================== *)

\* C37 as stated: during teardown no driver capability is resolved or invoked
\* on a module the core has already disabled or unloaded: of the nodes that
\* share a module, none but the last one torn down has the module disabled
\* or unloaded, since the free capability is resolved for every later one.
C37_ModuleOutlivesItsNodes ==
    Unmounted =>
        \A i, j \in 1..Len(last.teardown) :
            i < j /\ last.freed[i] = last.freed[j] =>
                ~last.teardown[i].disabled /\ ~last.teardown[i].unloaded

(* ========================== claims: draining =========================== *)

\* C38 as stated: draining terminates in the exhausted state: on every open
\* iterator repeated readdir calls eventually report no more entries, also
\* when the driver of some node of the directory has no stat capability or
\* its stat fails.
C38_DrainingTerminates ==
    \A d \in DirIds : dirs[d].open ~> (Exhausted(d) \/ ~dirs[d].open)

(* ======================= claims: path lengths ========================== *)

\* more room than any path of the model takes
Roomy == 2 * MAX_PATH_LENGTH + 20

\* the complete path of a node: what read_driver_node_path writes when the
\* buffer cuts nothing off
WholePath(name, dev) == read_driver_node_path(name, dev, Roomy).path

\* C39 as stated: path computation never truncates silently: for every driver
\* name, major and minor either the complete path fits in the path buffer
\* (with its terminator) and is stored whole, or read_driver_node_path fails
\* with NO_SPACE; and two nodes whose complete paths differ never get the
\* same stored path.
C39_NoSilentTruncation ==
    last.op = "read_driver_node_path" =>
        LET whole == WholePath(rin.name, rin.dev)
        IN  /\ IF Len(whole) + 1 <= MAX_PATH_LENGTH
               THEN last.rc = "OK" /\ last.path = whole
               ELSE last.rc = "NO_SPACE"
            /\ \A dev \in PathDevs :
                  LET other == read_driver_node_path(rin.name, dev, MAX_PATH_LENGTH)
                  IN  ( /\ last.rc = "OK" /\ other.rc = "OK"
                        /\ WholePath(rin.name, dev) # whole )
                      => other.path # last.path

====
